---- MODULE Spec2Model ----
(***************************************************************************)
(* A model of the sitemap traversal engine (scraper/sitemap_crawler.py)    *)
(* and of the fetch-and-extract pipeline (scraper/link_extractor.py).      *)
(*                                                                         *)
(* The specifications share the variables below:                           *)
(*   SpecCrawl    one call of SitemapCrawler.get_all_sitemap_urls          *)
(*   SpecFilter   SitemapCrawler._filter_post_urls as a pure function      *)
(*   SpecBatch    one call of batch_extract_with_fallback                  *)
(*   SpecLimiter  SpecBatch, or one call of discover_multiple_sites        *)
(*   SpecFetch    one call of a fetch method of either client              *)
(***************************************************************************)
EXTENDS Integers, Sequences, FiniteSets, TLC

\* ------------------------------------------------------------------ bounds

\* longest <sitemap> list of a sitemap index document
MaxNested == 2
\* longest URL list handed to _filter_post_urls on its own
MaxFilterUrls == 3
\* longest pattern list handed to _filter_post_urls on its own
MaxPatterns == 2
\* longest batch handed to batch_extract_with_fallback
MaxBatch == 3
\* most links one page yields
MaxLinks == 2
\* longest script of answers to one fetch before the last answer repeats
MaxScript == 3

\* ----------------------------------------------------------------- helpers

SeqUpTo(S, n) == UNION {[1..k -> S] : k \in 0..n}

ToSet(s) == {s[i] : i \in DOMAIN s}

\* every ordering of a finite set: what list(set(xs)) may return
Orderings(S) ==
  {s \in [1..Cardinality(S) -> S] : \A i, j \in 1..Cardinality(S) : s[i] = s[j] => i = j}

\* ------------------------------------------------------------------- URLs

\* A URL string "<scheme>://host/<seg>/<seg>/": its scheme and path segments.
Url(scheme, path) == [scheme |-> scheme, path |-> path]

\* url.replace('http://', 'https://', 1) when url.startswith('http://')
Normalize(url) ==
  IF url.scheme = "http" THEN [url EXCEPT !.scheme = "https"] ELSE url

NormalizeAll(locs) == [i \in DOMAIN locs |-> Normalize(locs[i])]

\* the sitemap URLs a <sitemap><loc> may name, as written in the document
SitemapRefs ==
  { Url("https", <<"s2">>), Url("https", <<"s3">>), Url("http", <<"s2">>) }

\* the sitemap URLs the caller may pass as the root (never rewritten)
RootUrls == { Url("https", <<"s1">>), Url("http", <<"s2">>) }

\* every sitemap URL string that can be requested
SitemapUrls == SitemapRefs \cup RootUrls \cup {Normalize(u) : u \in SitemapRefs}

\* page URLs, as written in a <url><loc>
BlogA == Url("https", <<"blog", "a">>)
BlogAHttp == Url("http", <<"blog", "a">>)
BlogB == Url("https", <<"blog", "b">>)
BlogC == Url("https", <<"BLOG", "c">>)
NewsD == Url("https", <<"news", "d">>)
NewsE == Url("https", <<"news", "2024/01", "e">>)
TagX == Url("https", <<"tag", "x">>)
Misc == Url("https", <<"misc">>)
About == Url("https", <<"about">>)

\* the <url> lists of the urlset documents the server may serve
LeafLists ==
  { <<>>,
    << BlogAHttp, BlogA >>,
    << Misc, TagX >>,
    << Misc, About, Misc >>,
    << BlogA, BlogB, BlogC >>,
    << BlogC, NewsD, NewsE >> }

\* ------------------------------------------------------------- documents

NoContent == [kind |-> "none", locs |-> <<>>]
Unserved == [kind |-> "unserved", locs |-> <<>>]

\* what fetch_url may return for a sitemap URL: None, an index, a urlset
Contents ==
  {NoContent}
    \cup {[kind |-> "sitemapindex", locs |-> s] : s \in SeqUpTo(SitemapRefs, MaxNested)}
    \cup {[kind |-> "urlset", locs |-> s] : s \in LeafLists}

\* SitemapCrawler.parse_sitemap, after the fetch
ParseContent(content) ==
  IF content.kind = "none"
    THEN [urls |-> <<>>, nested_sitemaps |-> <<>>, error |-> TRUE, is_index |-> FALSE]
    ELSE IF content.kind = "sitemapindex"
      THEN [urls |-> <<>>, nested_sitemaps |-> NormalizeAll(content.locs),
            error |-> FALSE, is_index |-> TRUE]
      ELSE [urls |-> NormalizeAll(content.locs), nested_sitemaps |-> <<>>,
            error |-> FALSE, is_index |-> FALSE]

\* --------------------------------------------------------------- patterns

\* A pattern is a regular expression over the URL string. Lit(seg) is '/seg/';
\* End(seg) is r'/seg/?$'; DatePattern is r'/\d{4}/\d{2}/'.
Lit(seg) == [seg |-> seg, end |-> FALSE]
End(seg) == [seg |-> seg, end |-> TRUE]
DatePattern == Lit("\\d{4}/\\d{2}")
DateSegments == {"2024/01"}

\* str.lower on the segments in use
Lower(seg) == IF seg \in {"BLOG", "Blog"} THEN "blog" ELSE seg

SegMatches(p, seg) ==
  IF p = DatePattern THEN seg \in DateSegments ELSE Lower(seg) = Lower(p.seg)

\* re.search(pattern, url, re.IGNORECASE)
Search(p, url) ==
  IF p.end
    THEN Len(url.path) > 0 /\ SegMatches(p, url.path[Len(url.path)])
    ELSE \E i \in DOMAIN url.path : SegMatches(p, url.path[i])

MatchesAny(patterns, url) == \E i \in DOMAIN patterns : Search(patterns[i], url)

POST_URL_PATTERNS ==
  << Lit("blog"), Lit("article"), Lit("news"), Lit("post"), Lit("story"), DatePattern >>

EXCLUDE_URL_PATTERNS ==
  << Lit("category"), Lit("tag"), Lit("author"), Lit("page"),
     End("about"), End("contact"), End("privacy"), End("terms") >>

\* SitemapCrawler._filter_post_urls
PatternMatchedCount(urls, post) ==
  Cardinality({i \in DOMAIN urls : MatchesAny(post, urls[i])})

NeverPermissive(urls, post) == FALSE

UsePermissiveMode(urls, post) ==
  PatternMatchedCount(urls, post) = 0 /\ post # <<>>

KeepsExcluded(url, permissive, post, exclude) ==
  post = <<>> \/ permissive \/ MatchesAny(post, url)

KeepsUrl(url, permissive, post, exclude) ==
  /\ ~MatchesAny(exclude, url)
  /\ \/ post = <<>>
     \/ permissive
     \/ MatchesAny(post, url)

FilterPostUrls(urls, post, exclude) ==
  LET permissive == UsePermissiveMode(urls, post)
      Keep(url) == KeepsUrl(url, permissive, post, exclude)
  IN SelectSeq(urls, Keep)

\* `patterns or DEFAULT`: None and the empty list both give the default
NoneArg == [given |-> FALSE, pats |-> <<>>]
Given(pats) == [given |-> TRUE, pats |-> pats]
OrDefault(arg, default) == IF arg.given /\ arg.pats # <<>> THEN arg.pats ELSE default

\* ------------------------------------------------------------------ state

VARIABLES
  \* get_all_sitemap_urls
  pc,               \* "walk" | "done"  ("filter" in SpecFilter)
  sitemap_url,      \* the root argument
  stack,            \* the activations of process_sitemap, innermost last
  visited_sitemaps, \* the visited set
  all_urls,         \* the collected leaf URLs
  web,              \* what the server answered for each sitemap URL so far
  fetch_log,        \* the sitemap URLs handed to fetch_url, in order
  post_patterns,    \* the post patterns _filter_post_urls ran with
  exclude_patterns, \* the exclude patterns _filter_post_urls ran with
  filter_input,     \* the list _filter_post_urls ran over
  filter_runs,      \* how many times _filter_post_urls ran
  filtered_urls,    \* what _filter_post_urls returned
  unique_urls,      \* what get_all_sitemap_urls returned
  \* batch_extract_with_fallback
  bpc,                \* "first" | "launch" | "second" | "done" | "raised";
                      \* "sites" | "sites_done" in discover_multiple_sites ("idle" elsewhere)
  post_urls,          \* the batch argument (the sites of discover_multiple_sites)
  concurrent,         \* the concurrency argument
  limit,              \* the value the running pass made its semaphore with
  semaphore,          \* the free slots of the running pass's semaphore
  tasks,              \* the extract_with_limit tasks of the running pass
  pass_results,       \* `results` of the running extract_from_multiple_pages
  completed,          \* `completed` of the running extract_from_multiple_pages
  results,            \* `results` of batch_extract_with_fallback
  failed_urls,        \* the URLs chosen for the browser pass
  playwright_results, \* what the browser pass returned
  light_results,      \* what the lightweight pass returned, kept for reference
  fetches,            \* every fetch_page call: its URL and strategy, in order
  browser_launches,   \* how many times a browser was launched
  progress_callback,  \* whether the caller passed a progress callback
  progress,           \* every progress_callback invocation and its arguments, in order
  open_resources,     \* the session, driver and browser objects that are open
  acquired,           \* every resource a LinkExtractor session acquired, in order
  release_failed,     \* the resources whose own close or stop call raised
  \* one fetch call (fetch_with_requests, fetch_with_playwright, fetch_url)
  fpc,                \* "fetching" | "returned"  ("idle" elsewhere)
  client,             \* which fetch method is called
  max_retries,        \* self.max_retries
  script,             \* what the server (or the browser) answers, request by request
  screenshot_path,    \* whether a screenshot path was passed
  retry_count,        \* the retry_count argument of the running activation
  adapter_retries,    \* the retries the session's Retry adapter has used in this get
  issued,             \* how many requests (or render attempts) were issued
  delays,             \* every sleep before a retry: who slept and for how long
  fetch_result,       \* what the fetch returned: "pending" | "html" | "none"
  open_pages,         \* browser pages opened and not closed
  \* crawl_site_sitemap
  spc,              \* "start" | "patterns" | "robots" | "announced" | "crawl" |
                    \* "returned"  ("idle" elsewhere)
  site_url,         \* the site_url argument
  custom_sitemap,   \* the custom_sitemap argument, or NoUrl
  manual_xml,       \* the manual_xml argument, or NoXml
  custom_patterns,  \* the custom_patterns argument
  candidates,       \* the candidates the running discovery loop has still to probe
  probes,           \* every URL discover_sitemap handed to fetch_url, in order
  probed,           \* what the latest of those fetches returned
  discovered,       \* what discover_sitemap returned, or NoUrl
  crawl_outcome,    \* the dict crawl_site_sitemap returned
  \* extract_outgoing_links
  lpc,              \* "extract" | "returned"  ("idle" elsewhere)
  page_url,         \* the url argument: the host of the page
  page_content,     \* what fetch_page does for the page
  excluded_domains, \* the excluded_domains argument
  link_result,      \* the dict extract_outgoing_links returned
  \* _calculate_link_position
  qpc,              \* "calculate" | "returned"  ("idle" elsewhere)
  region_blocks,    \* the p/div/section descendants of the article element
  link_ancestor,    \* where the link's nearest p/div/section ancestor is
  region_texts,     \* the text nodes of the article element
  link_position,    \* the dict _calculate_link_position returned
  \* discover_multiple_sites, with the traversal of every site
  site_worlds,      \* per site: what its server answers
  walks             \* per task: the activation of crawl_site_sitemap

crawlVars ==
  << pc, sitemap_url, stack, visited_sitemaps, all_urls,
     web, fetch_log, post_patterns, exclude_patterns, filter_input, filter_runs,
     filtered_urls, unique_urls >>

batchVars ==
  << bpc, post_urls, concurrent, limit, semaphore, tasks, pass_results, completed,
     results, failed_urls, playwright_results, light_results, fetches,
     browser_launches, progress_callback, progress, open_resources, acquired,
     release_failed >>

fetchVars ==
  << fpc, client, max_retries, script, screenshot_path, retry_count, adapter_retries,
     issued, delays, fetch_result, open_pages >>

siteVars ==
  << spc, site_url, custom_sitemap, manual_xml, custom_patterns, candidates, probes,
     probed, discovered, crawl_outcome >>

linkVars == << lpc, page_url, page_content, excluded_domains, link_result >>

posVars == << qpc, region_blocks, link_ancestor, region_texts, link_position >>

walkVars == << site_worlds, walks >>

vars == << crawlVars, batchVars, fetchVars, siteVars, linkVars, posVars, walkVars >>

\* the batch variables while no batch runs
BatchIdle ==
  /\ bpc = "idle"
  /\ post_urls = <<>>
  /\ concurrent = 0
  /\ limit = 0
  /\ semaphore = 0
  /\ tasks = <<>>
  /\ pass_results = <<>>
  /\ completed = 0
  /\ results = <<>>
  /\ failed_urls = <<>>
  /\ playwright_results = <<>>
  /\ light_results = <<>>
  /\ fetches = <<>>
  /\ browser_launches = 0
  /\ progress_callback = FALSE
  /\ progress = <<>>
  /\ open_resources = {}
  /\ acquired = <<>>
  /\ release_failed = {}

\* the fetch variables while no single fetch call is followed
FetchIdle ==
  /\ fpc = "idle"
  /\ client = "none"
  /\ max_retries = 0
  /\ script = <<>>
  /\ screenshot_path = FALSE
  /\ retry_count = 0
  /\ adapter_retries = 0
  /\ issued = 0
  /\ delays = <<>>
  /\ fetch_result = "pending"
  /\ open_pages = 0

\* no URL, no document: Python's None for an optional argument or result
NoUrl == Url("none", <<>>)
NoXml == [kind |-> "none", locs |-> <<>>]
NoOutcome == [status |-> "pending"]

\* the crawl_site_sitemap variables while no site crawl runs
SiteIdle ==
  /\ spc = "idle"
  /\ site_url = NoUrl
  /\ custom_sitemap = NoUrl
  /\ manual_xml = NoXml
  /\ custom_patterns = <<>>
  /\ candidates = <<>>
  /\ probes = <<>>
  /\ probed = "pending"
  /\ discovered = NoUrl
  /\ crawl_outcome = NoOutcome

\* the extract_outgoing_links variables while no page is extracted
LinkIdle ==
  /\ lpc = "idle"
  /\ page_url = <<>>
  /\ page_content = [kind |-> "none", article |-> <<>>, h2 |-> <<>>, aside |-> <<>>]
  /\ excluded_domains = NoneArg
  /\ link_result = [status |-> "pending"]

\* the _calculate_link_position variables while no position is calculated
PositionIdle ==
  /\ qpc = "idle"
  /\ region_blocks = <<>>
  /\ link_ancestor = [kind |-> "none", index |-> 0]
  /\ region_texts = <<>>
  /\ link_position = [paragraph |-> 0, word |-> 0]

\* the variables of the concurrent traversals while none runs
WalkIdle ==
  /\ site_worlds = <<>>
  /\ walks = <<>>

\* ------------------------------------------------ get_all_sitemap_urls

\* the pattern arguments a caller may pass
PostArgs == { NoneArg, Given(<<>>), Given(<< Lit("news") >>) }
ExcludeArgs == { NoneArg, Given(<< Lit("Blog") >>) }

Frame(url, at, nested, urls) == [url |-> url, at |-> at, nested |-> nested, urls |-> urls]

Top == stack[Len(stack)]
Pop == SubSeq(stack, 1, Len(stack) - 1)
ReplaceTop(frame) == [stack EXCEPT ![Len(stack)] = frame]

InitCrawl ==
  /\ pc = "walk"
  /\ sitemap_url \in RootUrls
  /\ stack = << Frame(sitemap_url, "enter", <<>>, <<>>) >>
  /\ visited_sitemaps = {}
  /\ all_urls = <<>>
  /\ web = [u \in SitemapUrls |-> Unserved]
  /\ fetch_log = <<>>
  /\ post_patterns = <<>>
  /\ exclude_patterns = <<>>
  /\ filter_input = <<>>
  /\ filter_runs = 0
  /\ filtered_urls = <<>>
  /\ unique_urls = <<>>
  /\ BatchIdle
  /\ FetchIdle
  /\ SiteIdle
  /\ LinkIdle
  /\ PositionIdle
  /\ WalkIdle

\* process_sitemap, lines 296-301: the visited check and the visited.add
AlwaysUnvisited(url) == FALSE
AlreadyVisited(url) == url \in visited_sitemaps

ForgetVisited(url) == visited_sitemaps
MarkVisited(url) == visited_sitemaps \cup {url}

ProcessSitemapEnter ==
  /\ pc = "walk" /\ stack # <<>> /\ Top.at = "enter"
  /\ IF AlreadyVisited(Top.url)
       THEN /\ stack' = Pop
            /\ UNCHANGED visited_sitemaps
       ELSE /\ visited_sitemaps' = MarkVisited(Top.url)
            /\ stack' = ReplaceTop([Top EXCEPT !.at = "parse"])
  /\ UNCHANGED << pc, sitemap_url, all_urls, web, fetch_log,
                  post_patterns, exclude_patterns, filter_input, filter_runs,
                  filtered_urls, unique_urls, batchVars, fetchVars, siteVars, linkVars,
                  posVars, walkVars >>

\* process_sitemap, lines 304-310: the delay, parse_sitemap (fetch and parse),
\* and the return on a failed fetch
ParseSitemap ==
  /\ pc = "walk" /\ stack # <<>> /\ Top.at = "parse"
  /\ \E content \in Contents :
       /\ web[Top.url] # Unserved => content = web[Top.url]
       /\ web' = [web EXCEPT ![Top.url] = content]
       /\ fetch_log' = Append(fetch_log, Top.url)
       /\ LET result == ParseContent(content)
          IN IF result.error
               THEN stack' = Pop
               ELSE stack' = ReplaceTop(
                      Frame(Top.url, "nested", result.nested_sitemaps, result.urls))
  /\ UNCHANGED << pc, sitemap_url, visited_sitemaps, all_urls,
                  post_patterns, exclude_patterns, filter_input, filter_runs,
                  filtered_urls, unique_urls, batchVars, fetchVars, siteVars, linkVars,
                  posVars, walkVars >>

\* line 319, `for nested_url in result['nested_sitemaps']`: the loop takes the
\* nested sitemaps in the order of the list
LastNested(nested) == nested[Len(nested)]
NextNested(nested) == Head(nested)

\* process_sitemap, lines 319-320: the next nested sitemap, in declaration order
ProcessNested ==
  /\ pc = "walk" /\ stack # <<>> /\ Top.at = "nested" /\ Top.nested # <<>>
  /\ stack' = Append(ReplaceTop([Top EXCEPT !.nested = Tail(Top.nested)]),
                     Frame(NextNested(Top.nested), "enter", <<>>, <<>>))
  /\ UNCHANGED << pc, sitemap_url, visited_sitemaps, all_urls,
                  web, fetch_log, post_patterns, exclude_patterns, filter_input,
                  filter_runs, filtered_urls, unique_urls, batchVars, fetchVars, siteVars, linkVars,
                  posVars, walkVars >>

\* process_sitemap, lines 323-327: all_urls.extend(result['urls']) and the return
ExtendUrls ==
  /\ pc = "walk" /\ stack # <<>> /\ Top.at = "nested" /\ Top.nested = <<>>
  /\ all_urls' = all_urls \o Top.urls
  /\ stack' = Pop
  /\ UNCHANGED << pc, sitemap_url, visited_sitemaps, web,
                  fetch_log, post_patterns, exclude_patterns, filter_input,
                  filter_runs, filtered_urls, unique_urls, batchVars, fetchVars, siteVars, linkVars,
                  posVars, walkVars >>

\* list(set(filtered_urls)): the distinct URLs, in some order
KeepDuplicates(urls) == {urls}
UniqueLists(urls) == Orderings(ToSet(urls))

\* line 329, `await process_sitemap(sitemap_url)`: the outermost activation returned
WalkNotAwaited == TRUE
WalkFinished == stack = <<>>

\* get_all_sitemap_urls, lines 331-343: filter what was collected and return
FilterAndReturn ==
  /\ pc = "walk" /\ WalkFinished
  /\ pc' = "done"
  /\ IF all_urls # <<>>
       THEN /\ \E post_arg \in PostArgs :
                 post_patterns' = OrDefault(post_arg, POST_URL_PATTERNS)
            /\ \E exclude_arg \in ExcludeArgs :
                 exclude_patterns' = OrDefault(exclude_arg, EXCLUDE_URL_PATTERNS)
            /\ filter_input' = all_urls
            /\ filter_runs' = filter_runs + 1
            /\ filtered_urls' = FilterPostUrls(all_urls, post_patterns', exclude_patterns')
            /\ unique_urls' \in UniqueLists(filtered_urls')
       ELSE /\ unique_urls' = <<>>
            /\ UNCHANGED << post_patterns, exclude_patterns, filter_input, filter_runs,
                            filtered_urls >>
  /\ UNCHANGED << sitemap_url, stack, visited_sitemaps, all_urls, web, fetch_log,
                  batchVars, fetchVars, siteVars, linkVars, posVars, walkVars >>

NextCrawl ==
  \/ ProcessSitemapEnter
  \/ ParseSitemap
  \/ ProcessNested
  \/ ExtendUrls
  \/ FilterAndReturn

SpecCrawl == InitCrawl /\ [][NextCrawl]_vars

\* ------------------------------------------------------ traversal claims

Occurrences(s, x) == Cardinality({i \in DOMAIN s : s[i] = x})

\* the sitemap URLs an index document served for u names, as they are requested
NestedOf(u) ==
  IF web[u].kind = "sitemapindex" THEN ToSet(NormalizeAll(web[u].locs)) ELSE {}

RECURSIVE ReachableFrom(_)
ReachableFrom(S) ==
  LET more == S \cup UNION {NestedOf(u) : u \in S}
  IN IF more = S THEN S ELSE ReachableFrom(more)

\* the sitemap nodes reachable from the root through the documents served
Reachable == ReachableFrom({sitemap_url})

\* the leaf URLs of the urlset document served for u, as they are collected
LeavesOf(u) == IF web[u].kind = "urlset" THEN NormalizeAll(web[u].locs) ELSE <<>>

RECURSIVE SumOver(_, _)
SumOver(S, x) ==
  IF S = {} THEN 0
  ELSE LET u == CHOOSE v \in S : TRUE
       IN Occurrences(LeavesOf(u), x) + SumOver(S \ {u}, x)

\* all_urls holds each leaf URL as often as the urlset documents of nodes list it
CollectedExactly(urls, nodes) ==
  \A x \in ToSet(urls) \cup UNION {ToSet(LeavesOf(u)) : u \in nodes} :
    Occurrences(urls, x) = SumOver(nodes, x)

\* C1: no sitemap URL is handed to the fetcher twice; when the call has
\* returned, every node reachable from the root was fetched exactly once and
\* expanded exactly once (each leaf URL was collected as often as the urlset
\* documents of the reachable nodes list it, and no more).
C1_VisitedOnce ==
  /\ \A u \in SitemapUrls : Occurrences(fetch_log, u) <= 1
  /\ ToSet(fetch_log) \subseteq visited_sitemaps
  /\ pc = "done" =>
       LET nodes == Reachable
       IN /\ \A u \in nodes : Occurrences(fetch_log, u) = 1
          /\ ToSet(fetch_log) = nodes
          /\ CollectedExactly(all_urls, nodes)

\* a returned call in which an index names itself and is named by another index
C1_Witness ==
  /\ pc = "done"
  /\ \E u, v \in SitemapUrls :
       /\ u # v
       /\ u \in NestedOf(u)
       /\ u \in NestedOf(v)
       /\ Occurrences(fetch_log, u) = 1
       /\ Occurrences(fetch_log, v) = 1

\* the work left: the unvisited sitemap URLs, then the activations on the stack
ParseWeight == 2 * MaxNested + 2

FrameWeight(frame) ==
  IF frame.at = "enter" THEN 1
  ELSE IF frame.at = "parse" THEN ParseWeight
  ELSE 1 + 2 * Len(frame.nested)

RECURSIVE StackWeight(_)
StackWeight(frames) ==
  IF frames = <<>> THEN 0 ELSE FrameWeight(Head(frames)) + StackWeight(Tail(frames))

Measure ==
  ParseWeight * Cardinality(SitemapUrls \ visited_sitemaps)
    + StackWeight(stack)
    + (IF pc = "walk" THEN 1 ELSE 0)

\* C2: the call terminates: every step strictly decreases a natural-number
\* measure, the recursion is never deeper than the number of visited sitemap
\* URLs plus one, and the call can always take a step until it has returned.
C2_Terminates ==
  /\ [][Measure' < Measure]_vars
  /\ [](Measure >= 0 /\ Len(stack) <= Cardinality(visited_sitemaps) + 1)
  /\ [](pc # "done" => ENABLED NextCrawl)

\* a returned call over two index documents that name each other
C2_Witness ==
  /\ pc = "done"
  /\ \E u, v \in SitemapUrls : u # v /\ v \in NestedOf(u) /\ u \in NestedOf(v)

\* the distinct normalized leaf URLs of the documents served that the filter keeps
Collected ==
  UNION {ToSet(NormalizeAll(web[u].locs)) : u \in {v \in ToSet(fetch_log) : web[v].kind = "urlset"}}

Survivors ==
  LET permissive == UsePermissiveMode(all_urls, post_patterns)
  IN {x \in Collected : KeepsUrl(x, permissive, post_patterns, exclude_patterns)}

\* C5: the returned list has no duplicates, and its size is the number of
\* distinct normalized leaf URLs that survive the filter.
C5_UniqueUrls ==
  pc = "done" =>
    /\ \A i, j \in DOMAIN unique_urls : unique_urls[i] = unique_urls[j] => i = j
    /\ LET survivors == Survivors
       IN /\ Len(unique_urls) = Cardinality(survivors)
          /\ ToSet(unique_urls) = survivors

\* an index over two leaf sitemaps of three URLs each that share one URL: 5 URLs
C5_Witness ==
  /\ pc = "done"
  /\ sitemap_url = Url("https", <<"s1">>)
  /\ web[sitemap_url] = [kind |-> "sitemapindex",
                         locs |-> << Url("https", <<"s2">>), Url("https", <<"s3">>) >>]
  /\ web[Url("https", <<"s2">>)] = [kind |-> "urlset", locs |-> << BlogA, BlogB, BlogC >>]
  /\ web[Url("https", <<"s3">>)] = [kind |-> "urlset", locs |-> << BlogC, NewsD, NewsE >>]
  /\ Len(all_urls) = 6
  /\ Len(filtered_urls) = 6
  /\ Len(unique_urls) = 5

\* C6: collect, then filter: while the walk runs nothing has been filtered;
\* the filter runs at most once (once when anything was collected), after the
\* outermost activation has returned, over everything the reachable urlset
\* documents list, and no fetch follows it.
C6_CollectThenFilter ==
  /\ pc = "walk" => filter_runs = 0 /\ filtered_urls = <<>> /\ unique_urls = <<>>
  /\ pc = "done" =>
       /\ stack = <<>>
       /\ ~ENABLED ParseSitemap
       /\ filter_runs = (IF all_urls = <<>> THEN 0 ELSE 1)
       /\ filter_runs = 1 =>
            /\ filter_input = all_urls
            /\ CollectedExactly(filter_input, Reachable)
            /\ filtered_urls = FilterPostUrls(filter_input, post_patterns, exclude_patterns)

\* the mode is decided over the whole collection: the first leaf sitemap alone
\* matches no post pattern, a later one does, and the first one's URL is dropped
C6_Witness ==
  /\ pc = "done"
  /\ filter_runs = 1
  /\ Len(fetch_log) = 3
  /\ post_patterns = POST_URL_PATTERNS
  /\ all_urls = << Misc, TagX, BlogA, BlogA >>
  /\ unique_urls = << BlogA >>

\* ------------------------------------------- _filter_post_urls on its own

BlogTag == Url("https", <<"blog", "tag">>)

\* the URLs, post patterns and exclude patterns a caller may hand to the filter
FilterUrls == { BlogA, BlogC, BlogTag, TagX, Misc, About }
FilterPostPatterns == { Lit("blog"), Lit("news"), DatePattern }
FilterExcludePatterns == { Lit("tag"), End("about") }

InitFilter ==
  /\ pc = "filter"
  /\ all_urls \in SeqUpTo(FilterUrls, MaxFilterUrls)
  /\ post_patterns \in SeqUpTo(FilterPostPatterns, MaxPatterns)
  /\ exclude_patterns \in SeqUpTo(FilterExcludePatterns, MaxPatterns)
  /\ sitemap_url = Url("https", <<"s1">>)
  /\ stack = <<>>
  /\ visited_sitemaps = {}
  /\ web = [u \in SitemapUrls |-> Unserved]
  /\ fetch_log = <<>>
  /\ filter_input = <<>>
  /\ filter_runs = 0
  /\ filtered_urls = <<>>
  /\ unique_urls = <<>>
  /\ BatchIdle
  /\ FetchIdle
  /\ SiteIdle
  /\ LinkIdle
  /\ PositionIdle
  /\ WalkIdle

\* one call of _filter_post_urls(urls, post_patterns, exclude_patterns)
FilterCall ==
  /\ pc = "filter"
  /\ pc' = "filtered"
  /\ filter_input' = all_urls
  /\ filter_runs' = filter_runs + 1
  /\ filtered_urls' = FilterPostUrls(all_urls, post_patterns, exclude_patterns)
  /\ UNCHANGED << sitemap_url, stack, visited_sitemaps, all_urls, web, fetch_log,
                  post_patterns, exclude_patterns, unique_urls, batchVars, fetchVars, siteVars, linkVars,
                  posVars, walkVars >>

NextFilter == FilterCall

SpecFilter == InitFilter /\ [][NextFilter]_vars

\* ---------------------------------------------------------- filter claims

NoPostMatch == \A i \in DOMAIN filter_input : ~MatchesAny(post_patterns, filter_input[i])

NotExcluded(url) == \A i \in DOMAIN exclude_patterns : ~Search(exclude_patterns[i], url)

PostMatched(url) == \E i \in DOMAIN post_patterns : Search(post_patterns[i], url)

\* C3: permissive mode: when no URL of the input matches a post pattern, the
\* output is the input without the URLs that match an exclude pattern (same
\* order, same multiplicity).
C3_PermissiveLaw ==
  (pc = "filtered" /\ NoPostMatch) =>
    filtered_urls = SelectSeq(filter_input, NotExcluded)

\* post patterns were given, none matched, one URL was excluded and one kept
C3_Witness ==
  /\ pc = "filtered"
  /\ post_patterns # <<>>
  /\ NoPostMatch
  /\ filtered_urls # <<>>
  /\ Len(filtered_urls) < Len(filter_input)

\* C4: strict mode: when some URL of the input matches a post pattern, every
\* output URL matches a post pattern and no exclude pattern, and every input
\* URL that matches a post pattern and no exclude pattern is in the output.
C4_StrictLaw ==
  (pc = "filtered" /\ ~NoPostMatch) =>
    /\ \A i \in DOMAIN filtered_urls :
         PostMatched(filtered_urls[i]) /\ NotExcluded(filtered_urls[i])
    /\ \A i \in DOMAIN filter_input :
         (PostMatched(filter_input[i]) /\ NotExcluded(filter_input[i]))
           => filter_input[i] \in ToSet(filtered_urls)
    /\ filtered_urls = SelectSeq(filter_input, LAMBDA u : PostMatched(u) /\ NotExcluded(u))

\* strict mode dropped one URL for matching no post pattern and one that matches
\* a post pattern and an exclude pattern, and kept a third
C4_Witness ==
  /\ pc = "filtered"
  /\ ~NoPostMatch
  /\ \E i, j \in DOMAIN filter_input :
       /\ ~PostMatched(filter_input[i]) /\ NotExcluded(filter_input[i])
       /\ PostMatched(filter_input[j]) /\ ~NotExcluded(filter_input[j])
  /\ Len(filtered_urls) = 1

PageUrls == {"p1", "p2"}
Concurrents == {1, 2, 24}

\* the cap in `min(concurrent // 2, 10)`
BrowserCap == 10

Min(a, b) == IF a <= b THEN a ELSE b
Max(a, b) == IF a >= b THEN a ELSE b

\* the semaphore value of the browser pass
BrowserLimit(c) == Min(c \div 2, BrowserCap)

\* what extract_outgoing_links returns: the error form, or success with its links
ErrorResult == [status |-> "error", total_links |-> 0]
SuccessResult(n) == [status |-> "success", total_links |-> n]
ExtractResults == {ErrorResult} \cup {SuccessResult(n) : n \in 0..MaxLinks}

\* A dict, in insertion order: d.keys(), d[key], d[key] = val, d.update(other)
Entry(key, val) == [key |-> key, val |-> val]
DictKeys(d) == {d[i].key : i \in DOMAIN d}
DictGet(d, key) == d[CHOOSE i \in DOMAIN d : d[i].key = key].val
DictOnly(d, key, val) == << Entry(key, val) >>
DictSet(d, key, val) ==
  IF key \in DictKeys(d)
    THEN [i \in DOMAIN d |-> IF d[i].key = key THEN Entry(key, val) ELSE d[i]]
    ELSE Append(d, Entry(key, val))

UpdateMissingOnly(d, other) ==
  d \o SelectSeq(other, LAMBDA e : e.key \notin DictKeys(d))

RECURSIVE DictUpdate(_, _)
DictUpdate(d, other) ==
  IF other = <<>> THEN d
  ELSE DictUpdate(DictSet(d, Head(other).key, Head(other).val), Tail(other))

\* line 426: the result sends its URL to the browser pass
OnlyErrors(result) == result.status = "error"
RetryAll(result) == TRUE
IsFailed(result) == result.status = "error" \/ result.total_links = 0

\* lines 425-426: failed_urls, in the order of results.items()
FailedUrls(d) ==
  LET failed == SelectSeq(d, LAMBDA e : IsFailed(e.val))
  IN [i \in DOMAIN failed |-> failed[i].key]

\* what fetch_page hands to extract_outgoing_links, or the exception raised while
\* fetching or parsing: None, a document with its links, or an exception
FetchOutcomes ==
  { [kind |-> "none", links |-> 0], [kind |-> "raises", links |-> 0] }
    \cup { [kind |-> "html", links |-> n] : n \in 0..MaxLinks }

\* LinkExtractor.extract_outgoing_links: the error form for a failed fetch and
\* for any exception, success with the links otherwise
ExtractOutgoingLinks(fetched) ==
  IF fetched.kind = "html" THEN SuccessResult(fetched.links) ELSE ErrorResult

\* line 403: one extract_with_limit task per URL of the list
NewTasks(urls) == [i \in DOMAIN urls |-> [url |-> urls[i], at |-> "waiting"]]

\* asyncio.gather has every task's outcome: its return value or its exception
AllTasksDone == \A i \in DOMAIN tasks : tasks[i].at = "done"

\* the fetch strategy of the running pass
Strategy == IF bpc = "second" THEN "playwright" ELSE "requests"

\* the traversal variables while no traversal runs
CrawlIdle ==
  /\ pc = "idle"
  /\ sitemap_url = Url("https", <<"s1">>)
  /\ stack = <<>>
  /\ visited_sitemaps = {}
  /\ all_urls = <<>>
  /\ web = [u \in SitemapUrls |-> Unserved]
  /\ fetch_log = <<>>
  /\ post_patterns = <<>>
  /\ exclude_patterns = <<>>
  /\ filter_input = <<>>
  /\ filter_runs = 0
  /\ filtered_urls = <<>>
  /\ unique_urls = <<>>

\* a resource one LinkExtractor session acquired
Acquisition(session, resource) == [session |-> session, resource |-> resource]

\* lines 419-422, 384-403 and 39-41: the lightweight pass starts with its session
InitBatch ==
  /\ bpc = "first"
  /\ post_urls \in SeqUpTo(PageUrls, MaxBatch)
  /\ concurrent \in Concurrents
  /\ limit = concurrent
  /\ semaphore = concurrent
  /\ tasks = NewTasks(post_urls)
  /\ pass_results = <<>>
  /\ completed = 0
  /\ results = <<>>
  /\ failed_urls = <<>>
  /\ playwright_results = <<>>
  /\ light_results = <<>>
  /\ fetches = <<>>
  /\ browser_launches = 0
  /\ progress_callback \in BOOLEAN
  /\ progress = <<>>
  /\ open_resources = {"session"}
  /\ acquired = << Acquisition("first", "session") >>
  /\ release_failed = {}
  /\ CrawlIdle
  /\ FetchIdle
  /\ SiteIdle
  /\ LinkIdle
  /\ PositionIdle
  /\ WalkIdle

\* asyncio.Semaphore.locked(): no free slot
NeverLocked(value) == FALSE
Locked(value) == value = 0

\* asyncio.Semaphore.release(), called by __aexit__ of `async with semaphore`
\* however the body ended: the slot is given back
Kept(value) == value
Released(value) == value + 1

\* line 393, `async with semaphore`: a waiting task takes a free slot
Acquire(i) ==
  /\ bpc \in {"first", "second"}
  /\ tasks[i].at = "waiting"
  /\ ~Locked(semaphore)
  /\ semaphore' = semaphore - 1
  /\ tasks' = [tasks EXCEPT ![i].at = "running"]
  /\ UNCHANGED << bpc, post_urls, concurrent, limit, pass_results, completed, results,
                  failed_urls, playwright_results, light_results, fetches,
                  browser_launches, progress_callback, progress, open_resources,
                  acquired, release_failed, crawlVars, fetchVars, siteVars, linkVars,
                  posVars, walkVars >>

\* line 396, `completed += 1`
NotCounted(count) == count
NextCompleted(count) == count + 1

\* lines 398-399: the arguments of one progress_callback invocation
Invocation(count, total, url) ==
  [completed |-> count, total |-> total, url |-> url, strategy |-> Strategy]

\* lines 394-399: extract_outgoing_links returns, the result is stored under the
\* task's URL, the task is counted and the progress callback, if any, is invoked
Extract(i) ==
  /\ bpc \in {"first", "second"}
  /\ tasks[i].at = "running"
  /\ \E fetched \in FetchOutcomes :
       pass_results' = DictSet(pass_results, tasks[i].url, ExtractOutgoingLinks(fetched))
  /\ tasks' = [tasks EXCEPT ![i].at = "stored"]
  /\ fetches' = Append(fetches, [url |-> tasks[i].url, strategy |-> Strategy])
  /\ completed' = NextCompleted(completed)
  /\ progress' =
       IF progress_callback
         THEN Append(progress, Invocation(completed', Len(tasks), tasks[i].url))
         ELSE progress
  /\ UNCHANGED << bpc, post_urls, concurrent, limit, semaphore, results, failed_urls,
                  playwright_results, light_results, browser_launches,
                  progress_callback, open_resources, acquired, release_failed,
                  crawlVars, fetchVars, siteVars, linkVars, posVars, walkVars >>

\* lines 399-401 and 393: the progress callback, if any, returns or raises, and
\* either way the task leaves the semaphore and gather has its outcome
Release(i) ==
  /\ bpc \in {"first", "second"}
  /\ tasks[i].at = "stored"
  /\ semaphore' = Released(semaphore)
  /\ tasks' = [tasks EXCEPT ![i].at = "done"]
  /\ UNCHANGED << bpc, post_urls, concurrent, limit, pass_results, completed, results,
                  failed_urls, playwright_results, light_results, fetches,
                  browser_launches, progress_callback, progress, open_resources,
                  acquired, release_failed, crawlVars, fetchVars, siteVars, linkVars,
                  posVars, walkVars >>

\* lines 404-406, 50-51 and 420-428: the lightweight pass returns (its tasks are
\* gone), its session is closed and the failed URLs are chosen; with none the
\* batch returns
ReturnFirstPass ==
  /\ bpc = "first"
  /\ AllTasksDone
  /\ tasks' = <<>>
  /\ open_resources' = open_resources \ {"session"}
  /\ results' = pass_results
  /\ light_results' = pass_results
  /\ failed_urls' = FailedUrls(pass_results)
  /\ bpc' = IF failed_urls' # <<>> THEN "launch" ELSE "done"
  /\ UNCHANGED << post_urls, concurrent, limit, semaphore, pass_results,
                  completed, playwright_results, fetches, browser_launches,
                  progress_callback, progress, acquired, release_failed,
                  crawlVars, fetchVars, siteVars, linkVars, posVars, walkVars >>

\* how LinkExtractor.__aenter__ may end with use_playwright: both resources
\* acquired, the driver fails to start, or the browser fails to launch
EnterOutcomes == {"entered", "start_raises", "launch_raises"}

\* lines 431-433, 384-403 and 36-38: the browser pass starts; the driver is
\* started and the browser launched, or one of the two raises and the batch
\* raises with it (__aexit__ does not run for a failed __aenter__)
LaunchBrowser ==
  /\ bpc = "launch"
  /\ \E outcome \in EnterOutcomes :
       IF outcome = "entered"
         THEN /\ bpc' = "second"
              /\ browser_launches' = browser_launches + 1
              /\ open_resources' = open_resources \cup {"playwright", "browser"}
              /\ acquired' = acquired \o << Acquisition("second", "playwright"),
                                            Acquisition("second", "browser") >>
              /\ limit' = BrowserLimit(concurrent)
              /\ semaphore' = BrowserLimit(concurrent)
              /\ tasks' = NewTasks(failed_urls)
              /\ pass_results' = <<>>
              /\ completed' = 0
         ELSE /\ bpc' = "raised"
              /\ IF outcome = "launch_raises"
                   THEN /\ open_resources' = open_resources \cup {"playwright"}
                        /\ acquired' = Append(acquired, Acquisition("second", "playwright"))
                   ELSE UNCHANGED << open_resources, acquired >>
              /\ UNCHANGED << browser_launches, limit, semaphore, tasks, pass_results,
                              completed >>
  /\ UNCHANGED << post_urls, concurrent, results, failed_urls, playwright_results,
                  light_results, fetches, progress_callback, progress, release_failed,
                  crawlVars, fetchVars, siteVars, linkVars, posVars, walkVars >>

\* how LinkExtractor.__aexit__ may end with use_playwright: both released,
\* browser.close() raises (playwright.stop() is not reached), or stop() raises
ExitOutcomes == {"exited", "close_raises", "stop_raises"}

\* lines 404-406, 46-49 and 431-438: the browser pass returns and its browser and
\* driver are released; then its results overwrite the lightweight ones and the
\* batch returns, unless a release step raised and the batch raises with it
ReturnSecondPass ==
  /\ bpc = "second"
  /\ AllTasksDone
  /\ tasks' = <<>>
  /\ \E outcome \in ExitOutcomes :
       IF outcome = "exited"
         THEN /\ open_resources' = open_resources \ {"browser", "playwright"}
              /\ playwright_results' = pass_results
              /\ results' = DictUpdate(results, pass_results)
              /\ bpc' = "done"
              /\ UNCHANGED release_failed
         ELSE /\ bpc' = "raised"
              /\ IF outcome = "close_raises"
                   THEN /\ release_failed' = release_failed \cup {"browser"}
                        /\ UNCHANGED open_resources
                   ELSE /\ release_failed' = release_failed \cup {"playwright"}
                        /\ open_resources' = open_resources \ {"browser"}
              /\ UNCHANGED << playwright_results, results >>
  /\ UNCHANGED << post_urls, concurrent, limit, semaphore, pass_results,
                  completed, failed_urls, light_results, fetches, browser_launches,
                  progress_callback, progress, acquired, crawlVars, fetchVars, siteVars, linkVars,
                  posVars, walkVars >>

NextBatch ==
  \/ \E i \in DOMAIN tasks : Acquire(i)
  \/ \E i \in DOMAIN tasks : Extract(i)
  \/ \E i \in DOMAIN tasks : Release(i)
  \/ ReturnFirstPass
  \/ LaunchBrowser
  \/ ReturnSecondPass

SpecBatch == InitBatch /\ [][NextBatch]_vars

\* ----------------------------------------------------------- batch claims

\* the URLs whose lightweight result is an error or has no links
EscalationSet ==
  {light_results[i].key :
     i \in {j \in DOMAIN light_results :
              \/ light_results[j].val.status = "error"
              \/ light_results[j].val.total_links = 0}}

FetchedBy(strategy) ==
  {fetches[i].url : i \in {j \in DOMAIN fetches : fetches[j].strategy = strategy}}

LightweightFetches == Cardinality({i \in DOMAIN fetches : fetches[i].strategy = "requests"})

\* C7: the browser strategy fetches only URLs whose lightweight result is an
\* error or has no links, and only after the lightweight pass has fetched the
\* whole batch; the browser pass is given exactly those URLs, and when the batch
\* returns exactly those URLs were fetched through the browser.
C7_EscalationExact ==
  /\ bpc = "first" => FetchedBy("playwright") = {} /\ browser_launches = 0
  /\ \A i \in DOMAIN fetches :
       fetches[i].strategy = "playwright" =>
         /\ fetches[i].url \in EscalationSet
         /\ LightweightFetches = Len(post_urls)
         /\ \A j \in DOMAIN fetches : j > i => fetches[j].strategy = "playwright"
  /\ bpc = "second" => {tasks[i].url : i \in DOMAIN tasks} = EscalationSet
  /\ bpc = "done" => FetchedBy("playwright") = EscalationSet

\* a returned batch in which a page without links was fetched again through the
\* browser and a page with links was not
C7_Witness ==
  /\ bpc = "done"
  /\ \E u, v \in DictKeys(light_results) :
       /\ DictGet(light_results, u) = SuccessResult(0)
       /\ DictGet(light_results, v).total_links > 0
       /\ u \in FetchedBy("playwright")
       /\ v \notin FetchedBy("playwright")

AllLightweightSucceeded ==
  \A i \in DOMAIN light_results :
    light_results[i].val.status = "success" /\ light_results[i].val.total_links >= 1

\* C8: when the lightweight pass gave every URL a success with at least one
\* link, the batch returns without a browser launch or a browser fetch, and
\* returns the lightweight results unchanged.
C8_NoEscalation ==
  (bpc \notin {"first", "idle"} /\ AllLightweightSucceeded) =>
    /\ bpc = "done"
    /\ browser_launches = 0
    /\ FetchedBy("playwright") = {}
    /\ results = light_results

\* a returned batch of two URLs, both with links after the lightweight pass
C8_Witness ==
  /\ bpc = "done"
  /\ AllLightweightSucceeded
  /\ Cardinality(DictKeys(results)) = 2

\* C9: the returned mapping has exactly one entry per distinct input URL; an
\* escalated URL's entry is the browser pass's result, any other URL's entry is
\* the lightweight pass's result.
C9_MergeRule ==
  bpc = "done" =>
    /\ DictKeys(results) = ToSet(post_urls)
    /\ \A i, j \in DOMAIN results : results[i].key = results[j].key => i = j
    /\ \A u \in DictKeys(results) :
         IF u \in EscalationSet
           THEN /\ u \in DictKeys(playwright_results)
                /\ DictGet(results, u) = DictGet(playwright_results, u)
           ELSE DictGet(results, u) = DictGet(light_results, u)

\* a returned batch in which the browser result replaced a lightweight error and
\* another URL kept its lightweight result
C9_Witness ==
  /\ bpc = "done"
  /\ \E u, v \in DictKeys(results) :
       /\ DictGet(light_results, u) = ErrorResult
       /\ DictGet(results, u) = SuccessResult(2)
       /\ v \notin EscalationSet
       /\ DictGet(results, v) = SuccessResult(1)
  /\ Len(post_urls) = 3

\* C10: the browser pass runs with half the original limit, raised to a small
\* positive floor: for every original limit >= 1 its limit is at least 1.
C10_BrowserLimitFloor ==
  (bpc = "second" /\ concurrent >= 1) =>
    /\ limit >= 1
    /\ \E floor \in 1..BrowserCap : limit = Max(concurrent \div 2, floor)

\* ------------------------------------------------ discover_multiple_sites

\* the site URLs of a call; they are held in post_urls
Sites == {"site1", "site2"}

\* what crawl_site_sitemap returns: its status
CrawlResults == { [status |-> "success"], [status |-> "no_sitemap"], [status |-> "error"] }

\* sitemap_crawler.py lines 537-547: the call starts, one task per site
InitSites ==
  /\ bpc = "sites"
  /\ post_urls \in SeqUpTo(Sites, MaxBatch)
  /\ concurrent \in Concurrents
  /\ limit = concurrent
  /\ semaphore = concurrent
  /\ tasks = NewTasks(post_urls)
  /\ pass_results = <<>>
  /\ completed = 0
  /\ results = <<>>
  /\ failed_urls = <<>>
  /\ playwright_results = <<>>
  /\ light_results = <<>>
  /\ fetches = <<>>
  /\ browser_launches = 0
  /\ progress_callback = FALSE
  /\ progress = <<>>
  /\ open_resources = {}
  /\ acquired = <<>>
  /\ release_failed = {}
  /\ CrawlIdle
  /\ FetchIdle
  /\ SiteIdle
  /\ LinkIdle
  /\ PositionIdle
  /\ WalkIdle

\* line 543, `async with semaphore`: a waiting task takes a free slot
DiscoverAcquire(i) ==
  /\ bpc = "sites"
  /\ tasks[i].at = "waiting"
  /\ ~Locked(semaphore)
  /\ semaphore' = semaphore - 1
  /\ tasks' = [tasks EXCEPT ![i].at = "running"]
  /\ UNCHANGED << bpc, post_urls, concurrent, limit, pass_results, completed, results,
                  failed_urls, playwright_results, light_results, fetches,
                  browser_launches, progress_callback, progress, open_resources,
                  acquired, release_failed, crawlVars, fetchVars, siteVars, linkVars,
                  posVars, walkVars >>

\* lines 544-545: crawl_site_sitemap returns, the result is stored under the site
\* and the task leaves the semaphore
DiscoverStore(i) ==
  /\ bpc = "sites"
  /\ tasks[i].at = "running"
  /\ \E result \in CrawlResults :
       pass_results' = DictSet(pass_results, tasks[i].url, result)
  /\ semaphore' = Released(semaphore)
  /\ tasks' = [tasks EXCEPT ![i].at = "done"]
  /\ UNCHANGED << bpc, post_urls, concurrent, limit, completed, results,
                  failed_urls, playwright_results, light_results, fetches,
                  browser_launches, progress_callback, progress, open_resources,
                  acquired, release_failed, crawlVars, fetchVars, siteVars, linkVars,
                  posVars, walkVars >>

\* lines 548-550: gather has every task and the mapping is returned
DiscoverReturn ==
  /\ bpc = "sites"
  /\ AllTasksDone
  /\ bpc' = "sites_done"
  /\ results' = pass_results
  /\ tasks' = <<>>
  /\ UNCHANGED << post_urls, concurrent, limit, semaphore, pass_results, completed,
                  failed_urls, playwright_results, light_results, fetches,
                  browser_launches, progress_callback, progress, open_resources,
                  acquired, release_failed, crawlVars, fetchVars, siteVars, linkVars,
                  posVars, walkVars >>

NextSites ==
  \/ \E i \in DOMAIN tasks : DiscoverAcquire(i)
  \/ \E i \in DOMAIN tasks : DiscoverStore(i)
  \/ DiscoverReturn

\* either function that runs its tasks under a semaphore
InitLimiter == InitBatch \/ InitSites

NextLimiter == NextBatch \/ NextSites

SpecLimiter == InitLimiter /\ [][NextLimiter]_vars

\* ----------------------------------------------------- concurrency claims

\* the passes in which tasks run under a semaphore
PassRunning == bpc \in {"first", "second", "sites"}

\* the tasks that hold a slot: inside their fetch/extract section
InFlight == {i \in DOMAIN tasks : tasks[i].at \in {"running", "stored"}}

\* C11: at every moment the number of tasks inside their fetch/extract section
\* is at most the limit the pass was called with; the free slots and the tasks
\* in flight add up to that limit.
C11_InFlightBound ==
  PassRunning =>
    /\ Cardinality(InFlight) <= limit
    /\ semaphore >= 0
    /\ semaphore + Cardinality(InFlight) = limit

\* a pass of three tasks with limit 2: two are in flight and the third waits
C11_Witness ==
  /\ bpc = "first"
  /\ limit = 2
  /\ Cardinality(InFlight) = 2
  /\ \E i \in DOMAIN tasks : tasks[i].at = "waiting"

\* the tasks of the running pass that have stored their result
Stored == {i \in DOMAIN tasks : tasks[i].at \in {"stored", "done"}}

\* C12: failure isolation: a failed fetch or an exception gives the error
\* result; a task that stores its result changes no entry a sibling stored; no
\* task is stuck because of what a sibling did; and when gather has every task,
\* every input URL has an entry.
C12_FailureIsolation ==
  /\ \A fetched \in FetchOutcomes :
       fetched.kind # "html" => ExtractOutgoingLinks(fetched) = ErrorResult
  /\ []((bpc \in {"first", "second"} /\ AllTasksDone) =>
          DictKeys(pass_results) = {tasks[i].url : i \in DOMAIN tasks})
  /\ []((bpc \in {"first", "second"} /\ ~AllTasksDone /\ limit >= 1) =>
          ENABLED (\E i \in DOMAIN tasks : Acquire(i) \/ Extract(i) \/ Release(i)))
  /\ [][(bpc \in {"first", "second"} /\ bpc' = bpc) =>
          \A u \in DictKeys(pass_results) :
            DictGet(pass_results', u) = DictGet(pass_results, u)]_vars

\* C13: disjoint keys: no two tasks of a pass store under the same key.
C13_DisjointKeys ==
  bpc \in {"first", "second"} =>
    \A i, j \in Stored : i # j => tasks[i].url # tasks[j].url

\* the invocations of the progress callback in the pass of one strategy
ProgressOf(strategy) == SelectSeq(progress, LAMBDA e : e.strategy = strategy)

\* the N of the pass of one strategy: the length of the list it was called with
TotalOf(strategy) == IF strategy = "requests" THEN Len(post_urls) ELSE Len(failed_urls)

\* the pass of this strategy has returned
PassReturned(strategy) ==
  IF strategy = "requests" THEN bpc \in {"launch", "second", "done", "raised"}
  ELSE bpc = "done"

\* C14: with a progress callback, within one pass over N URLs the k-th
\* invocation has completedCount k and totalCount N; there is one invocation per
\* task that has stored its result, for a URL that has an entry; when the pass
\* has returned there were exactly N invocations, so completedCount took each of
\* 1..N exactly once, in increasing order.
C14_ProgressOnce ==
  progress_callback =>
    \A strategy \in {"requests", "playwright"} :
      LET p == ProgressOf(strategy)
      IN /\ \A k \in DOMAIN p : p[k].completed = k /\ p[k].total = TotalOf(strategy)
         /\ Len(p) <= TotalOf(strategy)
         /\ (bpc \in {"first", "second"} /\ strategy = Strategy) =>
              /\ Len(p) = Cardinality(Stored)
              /\ \A u \in PageUrls :
                   Cardinality({k \in DOMAIN p : p[k].url = u})
                     = Cardinality({i \in Stored : tasks[i].url = u})
              /\ \A k \in DOMAIN p : p[k].url \in DictKeys(pass_results)
         /\ PassReturned(strategy) => Len(p) = TotalOf(strategy)

\* a pass of three tasks has finished; the task of the last URL completed first
C14_Witness ==
  /\ progress_callback
  /\ bpc = "first"
  /\ AllTasksDone
  /\ post_urls = << "p1", "p1", "p2" >>
  /\ Len(progress) = 3
  /\ progress[1].url = "p2"
  /\ progress[3].completed = 3

\* ---------------------------------------------------------- session claims

\* no LinkExtractor session is inside its `async with` body
NoSessionOpen == bpc \notin {"first", "second"}

\* C20: a session acquires each resource at most once, and once the session has
\* ended, on whatever path, no resource it acquired is open (but one whose own
\* close or stop call raised).
C20_ResourcesReleased ==
  /\ \A i, j \in DOMAIN acquired : acquired[i] = acquired[j] => i = j
  /\ NoSessionOpen => open_resources \subseteq release_failed

\* ------------------------------------------------------- one fetch call

\* common/config.py
MAX_RETRIES == 3
RETRY_DELAY == 2

\* the fetch methods: LinkExtractor.fetch_with_requests and fetch_with_playwright,
\* SitemapCrawler._fetch_url_requests and _fetch_url_browser
Clients == {"link_requests", "link_playwright", "sitemap_requests", "sitemap_browser"}

\* what one HTTP request may end with: a response status, or a timeout, or a
\* connection error
HttpOutcomes == {"200", "404", "429", "500", "503", "timeout", "connect"}

\* what one render attempt may end with: the step of fetch_with_playwright that
\* raises, or "ok"
RenderOutcomes == {"ok", "new_page", "goto", "screenshot", "content", "close"}

\* what one run of the Playwright subprocess may end with: its output, None, or
\* an exception of the executor
SubprocessOutcomes == {"output", "nothing", "raises"}

Outcomes(c) ==
  IF c \in {"link_requests", "sitemap_requests"} THEN HttpOutcomes
  ELSE IF c = "link_playwright" THEN RenderOutcomes
  ELSE SubprocessOutcomes

\* the answers to the first requests; the last one is repeated from then on
Scripts(c) == SeqUpTo(Outcomes(c), MaxScript) \ {<<>>}

\* the answer to the n-th request
Response(n) == script[Min(n, Len(script))]

\* one asyncio.sleep before a retry
Sleep(by, secs) == [by |-> by, secs |-> secs]

InitFetch ==
  /\ fpc = "fetching"
  /\ client \in Clients
  /\ max_retries \in 0..MAX_RETRIES
  /\ script \in Scripts(client)
  /\ screenshot_path \in (IF client = "link_playwright" THEN BOOLEAN ELSE {FALSE})
  /\ retry_count = 0
  /\ adapter_retries = 0
  /\ issued = 0
  /\ delays = <<>>
  /\ fetch_result = "pending"
  /\ open_pages = 0
  /\ CrawlIdle
  /\ BatchIdle
  /\ SiteIdle
  /\ LinkIdle
  /\ PositionIdle
  /\ WalkIdle

\* the activation returns `returned`
Return(returned) ==
  /\ fpc' = "returned"
  /\ fetch_result' = returned
  /\ UNCHANGED << retry_count, adapter_retries, delays >>

\* `await asyncio.sleep(secs)` and the recursive call with retry_count + 1
Retry(secs) ==
  /\ delays' = Append(delays, Sleep("client", secs))
  /\ retry_count' = retry_count + 1
  /\ adapter_retries' = 0
  /\ UNCHANGED << fpc, fetch_result >>

\* LinkExtractor.fetch_with_requests, lines 55-75: one request and what follows
FetchWithRequests ==
  /\ fpc = "fetching" /\ client = "link_requests"
  /\ issued' = issued + 1
  /\ LET answer == Response(issued + 1)
     IN IF answer = "200" THEN Return("html")
        ELSE IF answer \in {"429", "503"} /\ retry_count < max_retries
          THEN Retry(RETRY_DELAY * (retry_count + 1))
        ELSE IF answer = "timeout" /\ retry_count < max_retries
          THEN Retry(RETRY_DELAY)
        ELSE Return("none")
  /\ UNCHANGED << client, max_retries, script, screenshot_path, open_pages,
                  crawlVars, batchVars, siteVars, linkVars, posVars, walkVars >>

\* lines 80-93: the attempt raises (a failed screenshot is caught at line 89;
\* without a path no screenshot is taken)
ScreenshotFatal(answer, shot) ==
  answer \in {"new_page", "goto", "content", "close"} \/ (shot /\ answer = "screenshot")
RenderRaises(answer, shot) == answer \in {"new_page", "goto", "content", "close"}

\* LinkExtractor.fetch_with_playwright, lines 79-102: one attempt and what follows
FetchWithPlaywright ==
  /\ fpc = "fetching" /\ client = "link_playwright"
  /\ issued' = issued + 1
  /\ LET answer == Response(issued + 1)
     IN IF ~RenderRaises(answer, screenshot_path)
          THEN /\ Return("html")
               /\ UNCHANGED open_pages
          ELSE /\ open_pages' = IF answer = "new_page" THEN open_pages ELSE open_pages + 1
               /\ IF retry_count < max_retries THEN Retry(RETRY_DELAY) ELSE Return("none")
  /\ UNCHANGED << client, max_retries, script, screenshot_path, crawlVars, batchVars, siteVars, linkVars,
                  posVars, walkVars >>

\* SitemapCrawler.__aenter__, lines 55-62: Retry(total=max_retries,
\* backoff_factor=1, status_forcelist=[429, 500, 502, 503, 504]) on the session
BackoffFactor == 1
StatusForcelist == {"429", "500", "503"}

\* the adapter retries the request itself: a listed status, a timeout, a
\* connection error
AdapterRetries(answer) == answer \in StatusForcelist \cup {"timeout", "connect"}

\* urllib3's Retry.get_backoff_time after n consecutive errors (no Retry-After)
AdapterBackoff(n) == IF n <= 1 THEN 0 ELSE BackoffFactor * 2 ^ (n - 1)

\* SitemapCrawler._fetch_url_requests, lines 144-178: one request of session.get
\* and what follows: the adapter sleeps and repeats it, or session.get raises
\* (the adapter's retries are used up) and the handlers of lines 164-178 decide,
\* or the response is delivered
FetchUrlRequests ==
  /\ fpc = "fetching" /\ client = "sitemap_requests"
  /\ issued' = issued + 1
  /\ LET answer == Response(issued + 1)
     IN IF AdapterRetries(answer)
          THEN IF adapter_retries < max_retries
                 THEN /\ adapter_retries' = adapter_retries + 1
                      /\ delays' = Append(delays,
                                     Sleep("adapter", AdapterBackoff(adapter_retries + 1)))
                      /\ UNCHANGED << fpc, fetch_result, retry_count >>
                 ELSE IF retry_count < max_retries
                   THEN Retry(RETRY_DELAY)
                   ELSE Return("none")
        ELSE IF answer = "200" THEN Return("html")
        ELSE IF answer \in {"429", "503"} /\ retry_count < max_retries
          THEN Retry(RETRY_DELAY * (retry_count + 1))
        ELSE Return("none")
  /\ UNCHANGED << client, max_retries, script, screenshot_path, open_pages,
                  crawlVars, batchVars, siteVars, linkVars, posVars, walkVars >>

\* SitemapCrawler._fetch_url_browser, lines 89-113: one run of the subprocess
FetchUrlBrowser ==
  /\ fpc = "fetching" /\ client = "sitemap_browser"
  /\ issued' = issued + 1
  /\ IF Response(issued + 1) = "output" THEN Return("html")
     ELSE IF retry_count < max_retries THEN Retry(RETRY_DELAY)
     ELSE Return("none")
  /\ UNCHANGED << client, max_retries, script, screenshot_path, open_pages,
                  crawlVars, batchVars, siteVars, linkVars, posVars, walkVars >>

NextFetch ==
  \/ FetchWithRequests
  \/ FetchWithPlaywright
  \/ FetchUrlRequests
  \/ FetchUrlBrowser

SpecFetch == InitFetch /\ [][NextFetch]_vars

\* ------------------------------------------------------------ fetch claims

\* the lightweight fetch of either client
Lightweight == client \in {"link_requests", "sitemap_requests"}

RateLimited(answer) == answer \in {"429", "503"}

\* C15: the lightweight fetch retries a 429 or 503 while the budget lasts, and
\* sleeps k * RETRY_DELAY before the k-th retry: 429, 429, 200 succeeds after
\* exactly 2 retries, the second delay longer than the first, and
\* max_retries + 1 rate-limited responses in a row end in failure.
C15_Backoff ==
  Lightweight =>
    /\ \A k \in DOMAIN delays :
         RateLimited(Response(k)) => delays[k].secs = k * RETRY_DELAY
    /\ (fpc = "returned" /\ RateLimited(Response(issued))) =>
         issued = max_retries + 1 /\ fetch_result = "none"
    /\ (fpc = "returned" /\ script = << "429", "429", "200" >> /\ max_retries >= 2) =>
         /\ fetch_result = "html"
         /\ issued = 3
         /\ Len(delays) = 2
         /\ delays[2].secs > delays[1].secs
    /\ (fpc = "returned" /\ \A n \in 1..(max_retries + 1) : RateLimited(Response(n))) =>
         fetch_result = "none" /\ issued = max_retries + 1

\* C16: for the lightweight fetch a status other than 200, 429 and 503 is
\* terminal: the request that got it is the last one and the fetch has failed.
C16_TerminalStatus ==
  Lightweight =>
    \A n \in 1..issued :
      Response(n) \in {"404", "500"} =>
        /\ n = issued
        /\ fpc = "returned"
        /\ fetch_result = "none"

\* C17: one fetch call makes at most 1 + max_retries attempts, whatever fails.
C17_RetryBudget ==
  /\ issued <= 1 + max_retries
  /\ fpc = "returned" => fetch_result \in {"html", "none"}

\* C18: a lightweight fetch reports failure after a connection error only when
\* the retry budget is used up.
C18_NetworkErrorRetried ==
  (Lightweight /\ fpc = "returned" /\ Response(issued) = "connect") =>
    /\ fetch_result = "none"
    /\ issued >= 1 + max_retries

\* the steps of a render attempt whose failure is a rendering error
RenderSteps == {"new_page", "goto", "content", "close"}

\* C19: the browser-rendered fetch retries every rendering error, sleeping
\* RETRY_DELAY each time, at most max_retries times, and then fails; an attempt
\* in which only the screenshot fails returns the rendered document.
C19_RenderRetry ==
  client = "link_playwright" =>
    /\ issued <= 1 + max_retries
    /\ Len(delays) = retry_count
    /\ \A k \in DOMAIN delays : delays[k] = Sleep("client", RETRY_DELAY)
    /\ \A n \in 1..issued : n < issued => Response(n) \in RenderSteps
    /\ fpc = "fetching" => retry_count = issued /\ retry_count <= max_retries
    /\ fpc = "returned" =>
         IF Response(issued) \in RenderSteps
           THEN fetch_result = "none" /\ issued = max_retries + 1
           ELSE fetch_result = "html"

\* a navigation failure was retried, then only the screenshot failed and the
\* fetch returned the document
C19_Witness ==
  /\ client = "link_playwright"
  /\ fpc = "returned"
  /\ screenshot_path
  /\ issued = 2
  /\ Response(1) = "goto"
  /\ Response(2) = "screenshot"
  /\ delays = << Sleep("client", RETRY_DELAY) >>
  /\ fetch_result = "html"

\* ---------------------------------------------------- crawl_site_sitemap

\* the most lines a robots.txt has
MaxRobots == 2

\* config.SITEMAP_PATTERNS, in list order, repeated entries included
\* (each pattern without its leading '/')
SITEMAP_PATTERNS ==
  << "sitemap.xml", "sitemap_index.xml", "wp-sitemap.xml", "sitemap-index.xml",
     "post-sitemap.xml", "news-sitemap.xml", "sitemap-news.xml", "page-sitemap.xml",
     "article-sitemap.xml", "sitemap1.xml", "sitemap_posts.xml", "blog-sitemap.xml",
     "main-sitemap.xml", "index-sitemap.xml", "sitemap_index.xml", "post-sitemap.xml",
     "page-sitemap.xml", "category-sitemap.xml", "sitemap.xml", "sitemap_index.xml" >>

\* the site_url arguments: "example.com" and "http://example.com/blog"
SiteUrls == { Url("", <<>>), Url("http", <<"blog">>) }

\* the custom_patterns arguments: None (or an empty list) and one extra pattern
CustomPatterns == { <<>>, << "my-sitemap.xml" >> }

\* the custom_sitemap arguments
CustomSitemaps == {NoUrl} \cup RootUrls

\* the manual_xml arguments: None, or the text of an index or of a urlset
ManualTexts == Contents

\* discover_sitemap, lines 204-208: 'https://' is put before a site_url that does
\* not start with 'http', and only the scheme and the host are kept
BaseUrl(url) == Url(IF url.scheme = "" THEN "https" ELSE url.scheme, <<>>)

\* base_url + pattern, and site_url + "/sitemap.xml"
Join(base, pattern) == Url(base.scheme, base.path \o << pattern >>)

\* discover_sitemap, lines 211-213: the built-in patterns, then the caller's
Patterns(custom) == IF custom # <<>> THEN SITEMAP_PATTERNS \o custom ELSE SITEMAP_PATTERNS

PatternCandidates(site, custom) ==
  [i \in DOMAIN Patterns(custom) |-> Join(BaseUrl(site), Patterns(custom)[i])]

\* what fetch_url may return for a candidate: None, an empty text, a page that
\* is no sitemap, a text with '<urlset', a text with '<sitemapindex'
ProbeBodies == { "none", "", "html", "<urlset", "<sitemapindex" }

\* _is_valid_sitemap: '<urlset' in content or '<sitemapindex' in content
AnyBody(body) == TRUE
IsValidSitemap(body) == body \in { "<urlset", "<sitemapindex" }

\* `content and self._is_valid_sitemap(content)`
Accepted(body) == body \notin { "none", "" } /\ IsValidSitemap(body)

\* a line of robots.txt, "<key>: <value>"
RobotsLine(key, value) == [key |-> key, value |-> value]

RobotsLines ==
  { RobotsLine("Sitemap", Url("https", <<"s1">>)),
    RobotsLine("SITEMAP", Url("http", <<"s2">>)),
    RobotsLine("Disallow", Url("", <<"private">>)) }

\* what fetch_url may return for robots.txt: None, or its lines
NoRobots == << RobotsLine("none", NoUrl) >>
RobotsTexts == {NoRobots} \cup SeqUpTo(RobotsLines, MaxRobots)

\* urljoin(base_url, '/robots.txt')
RobotsUrl(base) == Url(base.scheme, << "robots.txt" >>)

\* str.lower() of a robots.txt key
LowerKey(key) == IF key \in {"Sitemap", "SITEMAP"} THEN "sitemap"
                 ELSE IF key = "Disallow" THEN "disallow" ELSE key

\* check_robots_txt, after the fetch: the values of the 'sitemap:' lines, in order
CheckRobotsTxt(text) ==
  IF text = NoRobots \/ text = <<>>
    THEN <<>>
    ELSE LET lines == SelectSeq(text, LAMBDA line : LowerKey(line.key) = "sitemap")
         IN [i \in DOMAIN lines |-> lines[i].value]

\* the dicts crawl_site_sitemap returns
ErrorStatus == "error"
NoSitemapStatus == "no_sitemap"

Success(url, urls) ==
  [status |-> "success", sitemap_url |-> url, total_urls |-> Len(urls), urls |-> urls]

NoSitemap ==
  [status |-> NoSitemapStatus, sitemap_url |-> NoUrl, total_urls |-> 0, urls |-> <<>>]

ErrorOutcome ==
  [status |-> "error", sitemap_url |-> NoUrl, total_urls |-> 0, urls |-> <<>>]

\* `if manual_xml:`
IgnoreManual(xml) == FALSE
UseManual(xml) == xml # NoXml

\* _parse_manual_xml, lines 485-511: the <loc> texts of a urlset, as written;
\* nothing for an index
ManualUrls(xml) == IF xml.kind = "sitemapindex" THEN <<>> ELSE xml.locs

\* what the server answers during one walk started at root: the root document,
\* and one nested sitemap that can be fetched
RootDocuments ==
  { NoContent,
    [kind |-> "urlset", locs |-> <<>>],
    [kind |-> "urlset", locs |-> << BlogAHttp, BlogA >>],
    [kind |-> "urlset", locs |-> << Misc, TagX >>],
    [kind |-> "sitemapindex", locs |-> << Url("https", <<"s2">>), Url("https", <<"s3">>) >>] }

NestedDocument(url) ==
  IF url = Url("https", <<"s2">>)
    THEN [kind |-> "urlset", locs |-> << BlogA, BlogB, BlogC >>]
    ELSE NoContent

SiteWebs(root) ==
  { [u \in SitemapUrls \cup {root} |-> IF u = root THEN document ELSE NestedDocument(u)] :
      document \in RootDocuments }

InitSite ==
  /\ spc = "start"
  /\ site_url \in SiteUrls
  /\ custom_sitemap \in CustomSitemaps
  /\ manual_xml \in ManualTexts
  /\ custom_patterns \in CustomPatterns
  /\ candidates = <<>>
  /\ probes = <<>>
  /\ probed = "pending"
  /\ discovered = NoUrl
  /\ crawl_outcome = NoOutcome
  /\ CrawlIdle
  /\ BatchIdle
  /\ FetchIdle
  /\ LinkIdle
  /\ PositionIdle
  /\ WalkIdle

\* crawl_site_sitemap, lines 422-438: the manual branch. _parse_manual_xml reads
\* the text, filters what a urlset lists and returns list(set(...)).
ManualCrawl ==
  /\ spc = "start" /\ UseManual(manual_xml)
  /\ spc' = "returned"
  /\ LET url == IF custom_sitemap # NoUrl THEN custom_sitemap
                ELSE Join(site_url, "sitemap.xml")
     IN IF manual_xml.kind = "sitemapindex"
          THEN /\ crawl_outcome' = Success(url, <<>>)
               /\ UNCHANGED << all_urls, post_patterns, exclude_patterns, filter_input,
                               filter_runs, filtered_urls, unique_urls >>
          ELSE /\ all_urls' = ManualUrls(manual_xml)
               /\ \E post_arg \in PostArgs :
                    post_patterns' = OrDefault(post_arg, POST_URL_PATTERNS)
               /\ \E exclude_arg \in ExcludeArgs :
                    exclude_patterns' = OrDefault(exclude_arg, EXCLUDE_URL_PATTERNS)
               /\ filter_input' = all_urls'
               /\ filter_runs' = filter_runs + 1
               /\ filtered_urls' = FilterPostUrls(all_urls', post_patterns', exclude_patterns')
               /\ unique_urls' \in UniqueLists(filtered_urls')
               /\ crawl_outcome' = Success(url, unique_urls')
  /\ UNCHANGED << pc, sitemap_url, stack, visited_sitemaps, web, fetch_log,
                  site_url, custom_sitemap, manual_xml, custom_patterns, candidates,
                  probes, probed, discovered, batchVars, fetchVars, linkVars,
                  posVars, walkVars >>

\* crawl_site_sitemap, lines 456-460: get_all_sitemap_urls is called with root
BeginWalk(root) ==
  /\ spc' = "crawl"
  /\ pc' = "walk"
  /\ sitemap_url' = root
  /\ stack' = << Frame(root, "enter", <<>>, <<>>) >>
  /\ web' \in SiteWebs(root)
  /\ UNCHANGED << visited_sitemaps, all_urls, fetch_log, post_patterns,
                  exclude_patterns, filter_input, filter_runs, filtered_urls,
                  unique_urls >>

\* crawl_site_sitemap, lines 441-444: the caller's sitemap, or discovery
ChooseSitemap ==
  /\ spc = "start" /\ ~UseManual(manual_xml)
  /\ IF custom_sitemap # NoUrl
       THEN /\ BeginWalk(custom_sitemap)
            /\ UNCHANGED candidates
       ELSE /\ spc' = "patterns"
            /\ candidates' = PatternCandidates(site_url, custom_patterns)
            /\ UNCHANGED crawlVars
  /\ UNCHANGED << site_url, custom_sitemap, manual_xml, custom_patterns, probes,
                  probed, discovered, crawl_outcome, batchVars, fetchVars, linkVars,
                  posVars, walkVars >>

\* one turn of a discovery loop: fetch the next candidate; return it when its
\* body is accepted (crawl_site_sitemap then walks it), go on otherwise
Probe ==
  /\ candidates # <<>>
  /\ \E body \in ProbeBodies :
       /\ probes' = Append(probes, Head(candidates))
       /\ probed' = body
       /\ IF Accepted(body)
            THEN /\ discovered' = Head(candidates)
                 /\ BeginWalk(Head(candidates))
            ELSE /\ UNCHANGED << spc, discovered, crawlVars >>
  /\ candidates' = Tail(candidates)
  /\ UNCHANGED << site_url, custom_sitemap, manual_xml, custom_patterns,
                  crawl_outcome, batchVars, fetchVars, linkVars, posVars, walkVars >>

\* discover_sitemap, lines 217-223: the pattern candidates
ProbePattern == spc = "patterns" /\ Probe

\* discover_sitemap, line 226, and check_robots_txt: no pattern candidate was
\* accepted, robots.txt is fetched and its sitemap lines become the candidates
CheckRobots ==
  /\ spc = "patterns" /\ candidates = <<>>
  /\ spc' = "announced"
  /\ \E text \in RobotsTexts :
       /\ probes' = Append(probes, RobotsUrl(BaseUrl(site_url)))
       /\ probed' = IF text = NoRobots THEN "none" ELSE "robots"
       /\ candidates' = CheckRobotsTxt(text)
  /\ UNCHANGED << site_url, custom_sitemap, manual_xml, custom_patterns, discovered,
                  crawl_outcome, crawlVars, batchVars, fetchVars, linkVars, posVars, walkVars >>

\* discover_sitemap, lines 227-231: the candidates robots.txt announced
ProbeAnnounced == spc = "announced" /\ Probe

\* discover_sitemap, lines 233-234, and crawl_site_sitemap, lines 446-453
ReturnNoSitemap ==
  /\ spc = "announced" /\ candidates = <<>>
  /\ spc' = "returned"
  /\ discovered' = NoUrl
  /\ crawl_outcome' = NoSitemap
  /\ UNCHANGED << site_url, custom_sitemap, manual_xml, custom_patterns, candidates,
                  probes, probed, crawlVars, batchVars, fetchVars, linkVars,
                  posVars, walkVars >>

\* crawl_site_sitemap, lines 462-468: get_all_sitemap_urls returned
ReturnSuccess ==
  /\ spc = "crawl" /\ pc = "done"
  /\ spc' = "returned"
  /\ crawl_outcome' = Success(sitemap_url, unique_urls)
  /\ UNCHANGED << site_url, custom_sitemap, manual_xml, custom_patterns, candidates,
                  probes, probed, discovered, crawlVars, batchVars, fetchVars, linkVars,
                  posVars, walkVars >>

\* crawl_site_sitemap, lines 470-478: the body raised and the error form is
\* returned. In the calls of this model the source of an exception is a
\* caller's pattern that is no regular expression: re.search raises re.error in
\* _filter_post_urls as soon as there is a URL to filter, in the manual branch
\* or at the end of get_all_sitemap_urls, whose walk is then without result
CatchException ==
  /\ \/ spc = "start" /\ UseManual(manual_xml) /\ ManualUrls(manual_xml) # <<>>
     \/ spc = "crawl" /\ pc = "walk" /\ WalkFinished /\ all_urls # <<>>
  /\ spc' = "returned"
  /\ crawl_outcome' = ErrorOutcome
  /\ pc' = IF pc = "walk" THEN "raised" ELSE pc
  /\ UNCHANGED << sitemap_url, stack, visited_sitemaps, all_urls, web, fetch_log,
                  post_patterns, exclude_patterns, filter_input, filter_runs,
                  filtered_urls, unique_urls, site_url, custom_sitemap, manual_xml,
                  custom_patterns, candidates, probes, probed, discovered,
                  batchVars, fetchVars, linkVars, posVars, walkVars >>

NextSite ==
  \/ ManualCrawl
  \/ ChooseSitemap
  \/ ProbePattern
  \/ CheckRobots
  \/ ProbeAnnounced
  \/ ReturnNoSitemap
  \/ NextCrawl
  \/ ReturnSuccess
  \/ CatchException

SpecSite == InitSite /\ [][NextSite]_vars

\* --------------------------------------------- claims about sitemap discovery

\* crawl_site_sitemap ran discover_sitemap: no manual text, no caller's sitemap
Discovering == spc # "start" /\ ~(manual_xml # NoXml) /\ custom_sitemap = NoUrl

\* the body carries one of the two sitemap markers
HasMarker(body) == body \in { "<urlset", "<sitemapindex" }

\* the sitemap lines of a robots.txt, in declaration order
RECURSIVE Announced(_)
Announced(text) ==
  IF text = <<>> THEN <<>>
  ELSE (IF Head(text).key \in {"sitemap", "Sitemap", "SITEMAP"}
          THEN << Head(text).value >> ELSE <<>>) \o Announced(Tail(text))

\* C21: discovery precedence. The candidates are fetched in order: the built-in
\* patterns in list order, then the caller's; robots.txt only after every
\* pattern candidate was fetched and rejected, then the URLs it announces in
\* declaration order. Discovery returns a candidate exactly when the body just
\* fetched for it carries a sitemap marker, and every later candidate is left
\* unfetched.
C21_DiscoveryPrecedence ==
  /\ \A text \in RobotsTexts \ {NoRobots} : CheckRobotsTxt(text) = Announced(text)
  /\ Discovering =>
       LET all == SITEMAP_PATTERNS \o custom_patterns
           base == IF site_url.scheme = "" THEN "https" ELSE site_url.scheme
           n == Len(probes)
       IN /\ n <= Len(all) =>
               /\ probes \o candidates = [i \in DOMAIN all |-> Url(base, << all[i] >>)]
               /\ spc = "patterns" \/ discovered # NoUrl
          /\ n > Len(all) =>
               /\ SubSeq(probes, 1, Len(all)) = [i \in DOMAIN all |-> Url(base, << all[i] >>)]
               /\ probes[Len(all) + 1] = Url(base, << "robots.txt" >>)
               /\ SubSeq(probes, Len(all) + 2, n) \o candidates
                    \in {Announced(text) : text \in SeqUpTo(RobotsLines, MaxRobots)}
          /\ discovered # NoUrl <=> (n > 0 /\ HasMarker(probed))
          /\ discovered # NoUrl => discovered = probes[n] /\ spc \in {"crawl", "returned"}

\* discovery returned the first URL robots.txt announced and left the second
\* one unfetched
C21_Witness ==
  /\ Discovering
  /\ discovered # NoUrl
  /\ Len(probes) = Len(SITEMAP_PATTERNS \o custom_patterns) + 2
  /\ candidates # <<>>
  /\ custom_patterns # <<>>

\* C22: discovery exhausted. When every pattern candidate and every candidate
\* robots.txt announced was rejected or could not be fetched, crawl_site_sitemap
\* returns, and what it returns has status no_sitemap (not error), no sitemap
\* URL, an empty URL list and total_urls = 0; no sitemap was walked.
C22_NoSitemap ==
  /\ (Discovering /\ spc = "announced" /\ candidates = <<>>) => ENABLED ReturnNoSitemap
  /\ (Discovering /\ spc = "returned" /\ ~HasMarker(probed)) =>
       /\ crawl_outcome.status = "no_sitemap"
       /\ crawl_outcome.sitemap_url = NoUrl
       /\ crawl_outcome.urls = <<>>
       /\ crawl_outcome.total_urls = 0
       /\ fetch_log = <<>>
  /\ (spc = "returned" /\ crawl_outcome.status = "no_sitemap") => ~HasMarker(probed)

\* every pattern candidate was rejected, robots.txt announced two sitemaps, and
\* the last of them answered with a page that is no sitemap
C22_Witness ==
  /\ Discovering /\ spc = "returned"
  /\ crawl_outcome.status = "no_sitemap"
  /\ Len(probes) = Len(SITEMAP_PATTERNS \o custom_patterns) + 3
  /\ probed = "html"

\* C23: the manual override never touches the network. With manual XML text
\* nothing is fetched, neither by discovery nor by a sitemap walk; and when the
\* text is a sitemap index none of its nested sitemaps is fetched or expanded
\* and the returned list is empty.
C23_ManualOffline ==
  manual_xml # NoXml =>
    /\ probes = <<>>
    /\ fetch_log = <<>>
    /\ stack = <<>>
    /\ spc \in {"start", "returned"}
    /\ (spc = "returned" /\ manual_xml.kind = "sitemapindex") =>
         /\ crawl_outcome.urls = <<>>
         /\ crawl_outcome.total_urls = 0
         /\ all_urls = <<>>

\* the call returned for a manual text that is an index naming two sitemaps
C23_Witness ==
  /\ spc = "returned"
  /\ manual_xml.kind = "sitemapindex"
  /\ Len(manual_xml.locs) = 2
  /\ crawl_outcome.status = "success"

\* what get_all_sitemap_urls returns, as a set, when the root sitemap is this
\* urlset document and the filter runs with these patterns
NetworkUrls(document, post, exclude) ==
  LET collected == ParseContent(document).urls
  IN IF collected = <<>> THEN {} ELSE ToSet(FilterPostUrls(collected, post, exclude))

\* C24: manual mode returns what network mode returns. For a text that is no
\* index, the manual call returns the URL set a network crawl of the same text
\* with the same patterns returns; in particular no returned URL starts with
\* 'http://'.
C24_ManualEqualsNetwork ==
  (spc = "returned" /\ manual_xml # NoXml /\ manual_xml.kind = "urlset") =>
    /\ ToSet(crawl_outcome.urls) = NetworkUrls(manual_xml, post_patterns, exclude_patterns)
    /\ \A i \in DOMAIN crawl_outcome.urls : crawl_outcome.urls[i].scheme # "http"

\* the sitemaps whose fetch failed during the walk
FailedSitemaps == {u \in ToSet(fetch_log) : web[u].kind = "none"}

\* C30: sitemap-phase failures are reported. When the fetch of a sitemap failed
\* the returned outcome shows it; in particular, when the root sitemap could
\* not be fetched, the status is not success.
C30_FailuresReported ==
  (spc = "returned" /\ FailedSitemaps # {}) => crawl_outcome.status # "success"

\* ------------------------------------------------ extract_outgoing_links

\* the most <a href> elements a page has
MaxAnchors == 2

\* host names, character by character
ExampleCom == << "e", "x", "a", "m", "p", "l", "e", ".", "c", "o", "m" >>
ExampleComMixed == << "E", "x", "a", "m", "p", "l", "e", ".", "c", "o", "m" >>
OtherOrg == << "o", "t", "h", "e", "r", ".", "o", "r", "g" >>
SubOtherOrg == << "s", "u", "b", ".", "o", "t", "h", "e", "r", ".", "o", "r", "g" >>
WwwOtherOrgUpper == << "W", "W", "W", ".", "O", "t", "h", "e", "r", ".", "o", "r", "g" >>
WwwRedditCom == << "w", "w", "w", ".", "r", "e", "d", "d", "i", "t", ".", "c", "o", "m" >>

\* config.DEFAULT_EXCLUDED_DOMAINS, in list order
DEFAULT_EXCLUDED_DOMAINS ==
  << << "f", "a", "c", "e", "b", "o", "o", "k", ".", "c", "o", "m" >>,
     << "t", "w", "i", "t", "t", "e", "r", ".", "c", "o", "m" >>,
     << "x", ".", "c", "o", "m" >>,
     << "i", "n", "s", "t", "a", "g", "r", "a", "m", ".", "c", "o", "m" >>,
     << "l", "i", "n", "k", "e", "d", "i", "n", ".", "c", "o", "m" >>,
     << "p", "i", "n", "t", "e", "r", "e", "s", "t", ".", "c", "o", "m" >>,
     << "y", "o", "u", "t", "u", "b", "e", ".", "c", "o", "m" >>,
     << "t", "i", "k", "t", "o", "k", ".", "c", "o", "m" >>,
     << "r", "e", "d", "d", "i", "t", ".", "c", "o", "m" >>,
     << "g", "o", "o", "g", "l", "e", ".", "c", "o", "m" >>,
     << "g", "o", "o", "g", "l", "e", "-", "a", "n", "a", "l", "y", "t", "i", "c", "s", ".", "c", "o", "m" >>,
     << "g", "o", "o", "g", "l", "e", "t", "a", "g", "m", "a", "n", "a", "g", "e", "r", ".", "c", "o", "m" >>,
     << "d", "o", "u", "b", "l", "e", "c", "l", "i", "c", "k", ".", "n", "e", "t" >>,
     << "f", "a", "c", "e", "b", "o", "o", "k", ".", "n", "e", "t" >>,
     << "f", "b", "c", "d", "n", ".", "n", "e", "t" >>,
     << "g", "o", "o", "g", "l", "e", ".", "c", "o", "m" >>,
     << "g", "s", "t", "a", "t", "i", "c", ".", "c", "o", "m" >>,
     << "t", ".", "c", "o" >>,
     << "b", "i", "t", ".", "l", "y" >>,
     << "o", "w", ".", "l", "y" >>,
     << "t", "i", "n", "y", "u", "r", "l", ".", "c", "o", "m" >> >>

\* an href attribute: how its text begins, the host it names, its path
Href(lead, netloc, path) == [lead |-> lead, netloc |-> netloc, path |-> path]

\* '#top', 'javascript:void(0)', 'mailto:a@b.c', 'tel:+1', '/about', and four
\* absolute URLs
Hrefs ==
  { Href("#", <<>>, "top"),
    Href("javascript:", <<>>, "void(0)"),
    Href("mailto:", <<>>, "a@b.c"),
    Href("tel:", <<>>, "+1"),
    Href("/", <<>>, "about"),
    Href("https://", ExampleComMixed, "about"),
    Href("https://", OtherOrg, "x"),
    Href("https://", SubOtherOrg, "y"),
    Href("https://", WwwRedditCom, "z") }

\* a page: the hrefs of the <a> elements in the article element, in the <h2>
\* elements outside it and in the <aside> elements outside it, each in
\* document order
Page(kind, article, h2, aside) ==
  [kind |-> kind, article |-> article, h2 |-> h2, aside |-> aside]

\* the pages with at most MaxAnchors <a> elements
Pages ==
  UNION { UNION { UNION {
    { Page("html", article, h2, aside) :
        article \in [1..a -> Hrefs], h2 \in [1..h -> Hrefs],
        aside \in [1..(n - a - h) -> Hrefs] } :
    h \in 0..(n - a) } : a \in 0..n } : n \in 0..MaxAnchors }

\* what fetch_page does: returns None, raises, or returns a page
PageContents ==
  { Page("none", <<>>, <<>>, <<>>), Page("raises", <<>>, <<>>, <<>>) } \cup Pages

\* urlparse(url).netloc of the page URL https://example.com/post
PageHosts == { ExampleCom }

\* the excluded_domains arguments: None, [], and two one-entry lists
ExcludedArgs ==
  { NoneArg, Given(<<>>), Given(<< SubOtherOrg >>), Given(<< WwwOtherOrgUpper >>) }

\* `if excluded_domains is None: excluded_domains = DEFAULT_EXCLUDED_DOMAINS`
ExcludedOrDefault(arg) == IF arg.given THEN arg.pats ELSE DEFAULT_EXCLUDED_DOMAINS

\* str.lower() of a host name
LowerChar(c) == IF c = "E" THEN "e" ELSE IF c = "W" THEN "w" ELSE IF c = "O" THEN "o" ELSE c
LowerHost(host) == [i \in DOMAIN host |-> LowerChar(host[i])]

\* str.replace('www.', ''): every occurrence, left to right
RECURSIVE StripWww(_)
StripWww(host) ==
  IF Len(host) < 4 THEN host
  ELSE IF SubSeq(host, 1, 4) = << "w", "w", "w", "." >>
         THEN StripWww(SubSeq(host, 5, Len(host)))
         ELSE << Head(host) >> \o StripWww(Tail(host))

\* `inner in outer` for strings
Contains(inner, outer) ==
  \E i \in 0..(Len(outer) - Len(inner)) : SubSeq(outer, i + 1, i + Len(inner)) = inner

\* `excluded in link_domain or link_domain in excluded`
OneWay(excluded, link_domain) == Contains(excluded, link_domain)
EitherWay(excluded, link_domain) ==
  Contains(excluded, link_domain) \/ Contains(link_domain, excluded)

\* _should_exclude_link, for a URL that urlparse accepts
ShouldExcludeLink(netloc, excluded) ==
  LET link_domain == StripWww(LowerHost(netloc))
  IN \E i \in DOMAIN excluded :
       EitherWay(StripWww(LowerHost(excluded[i])), link_domain)

\* urljoin(base_url, href): the host of the absolute URL and the rest of it
UrlJoin(base_domain, href) ==
  IF href.lead = "https://" THEN [netloc |-> href.netloc, rest |-> href.path]
  ELSE IF href.lead \in { "/", "#" }
         THEN [netloc |-> base_domain, rest |-> href.lead \o href.path]
         ELSE [netloc |-> <<>>, rest |-> href.lead \o href.path]

\* _is_external_link
IsExternalLink(link_url, base_domain) ==
  link_url.netloc # base_domain /\ link_url.netloc # <<>>

\* _extract_links_from_element, line 202: the hrefs that are skipped unread
SkippedHref(href) ==
  href.lead \o href.path = "" \/ href.lead \in { "#", "javascript:", "mailto:", "tel:" }

\* a text node: a run of `words` words separated by single spaces, with no
\* space at either end, `chars` characters long
Text(chars, words) == [chars |-> chars, words |-> words]

\* the text of the <a> element of an href: one word of 501 characters, a
\* sentence of exactly 500 characters, one word of 700 characters, 'here'
AnchorText(href) ==
  IF href.path = "x" THEN Text(501, 1)
  ELSE IF href.path = "y" THEN Text(500, 80)
  ELSE IF href.path = "z" THEN Text(700, 1)
  ELSE Text(4, 1)

\* line 222, `link.get_text(strip=True)[:500]`: the anchor text, held as its
\* length, cut to its first 500 characters
AnchorTextLimit == 500
Uncut(text) == text.chars
Cut(text) == IF text.chars <= AnchorTextLimit THEN text.chars ELSE AnchorTextLimit

\* an element as BeautifulSoup compares it: Tag.__eq__ holds for two elements
\* of the same name, attributes and contents, so an element is held as that value
Tag(name, contents) == [name |-> name, contents |-> contents]
NoTag == Tag("none", <<>>)

\* a text node and the element it stands in
TextNode(parent, text) == [parent |-> parent, text |-> text]

\* `len(text_before.split())` for text nodes appended without a separator: the
\* last word of a node and the first word of the next one run together
RECURSIVE SumWords(_)
SumWords(nodes) ==
  IF nodes = <<>> THEN 0 ELSE Head(nodes).text.words + SumWords(Tail(nodes))
JoinedWords(nodes) ==
  IF nodes = <<>> THEN 0 ELSE SumWords(nodes) - (Len(nodes) - 1)

\* _calculate_link_position, lines 123-155: the 1-based index of the first
\* element of all_paragraphs that equals the link's nearest p/div/section
\* ancestor, 0 without one; the words of the text nodes before the first one
\* whose parent equals the link
CalculateLinkPosition(all_paragraphs, link_paragraph, text_nodes, link_element) ==
  LET found == {i \in DOMAIN all_paragraphs : all_paragraphs[i] = link_paragraph}
      stops == {i \in DOMAIN text_nodes : text_nodes[i].parent = link_element}
      before == IF stops = {} THEN text_nodes
                ELSE SubSeq(text_nodes, 1, (CHOOSE i \in stops : \A j \in stops : i <= j) - 1)
  IN [paragraph |-> IF link_paragraph = NoTag \/ found = {} THEN 0
                    ELSE CHOOSE i \in found : \A j \in found : i <= j,
      word |-> JoinedWords(before)]

\* the <a> element of an href and the <p> element it stands in: in the pages of
\* this model every <a> of the article element is the only child of a <p>
\* that is a child of the article element
Anchor(href) == Tag("a", << href >>)
Paragraph(href) == Tag("p", << Anchor(href) >>)

\* _extract_links_from_element over the <a> elements of one element
ExtractLinksFromElement(hrefs, base_domain, excluded, location) ==
  LET kept == SelectSeq([i \in DOMAIN hrefs |-> i], LAMBDA i :
                /\ ~SkippedHref(hrefs[i])
                /\ IsExternalLink(UrlJoin(base_domain, hrefs[i]), base_domain)
                /\ ~ShouldExcludeLink(UrlJoin(base_domain, hrefs[i]).netloc, excluded))
      all_paragraphs == [i \in DOMAIN hrefs |-> Paragraph(hrefs[i])]
      text_nodes == [i \in DOMAIN hrefs |-> TextNode(Anchor(hrefs[i]), AnchorText(hrefs[i]))]
  IN [k \in DOMAIN kept |->
       LET href == hrefs[kept[k]]
           link_data == [url |-> UrlJoin(base_domain, href),
                         anchor_text |-> Cut(AnchorText(href)),
                         is_article_link |-> location = "article",
                         link_location |-> location]
           position == CalculateLinkPosition(all_paragraphs, Paragraph(href),
                                             text_nodes, Anchor(href))
       IN IF location = "article"
            THEN [url |-> link_data.url,
                  anchor_text |-> link_data.anchor_text,
                  is_article_link |-> TRUE,
                  link_location |-> location,
                  position_paragraph |-> position.paragraph,
                  position_word |-> position.word]
            ELSE link_data]

\* extract_outgoing_links, lines 317-337: the article element, every <h2>,
\* every sidebar element outside the article
AllLinks(content, base_domain, excluded) ==
  ExtractLinksFromElement(content.article, base_domain, excluded, "article")
    \o ExtractLinksFromElement(content.h2, base_domain, excluded, "h2_heading")
    \o ExtractLinksFromElement(content.aside, base_domain, excluded, "aside")

\* extract_outgoing_links, lines 339-345: the first link of each URL
KeepEvery(links, seen_urls) == links
RECURSIVE UniqueLinks(_, _)
UniqueLinks(links, seen_urls) ==
  IF links = <<>> THEN <<>>
  ELSE IF Head(links).url \in seen_urls
         THEN UniqueLinks(Tail(links), seen_urls)
         ELSE << Head(links) >> \o UniqueLinks(Tail(links), seen_urls \cup {Head(links).url})

\* 'total_links': len(unique_links)
CountAll(all_links, unique_links) == Len(all_links)
TotalLinks(all_links, unique_links) == Len(unique_links)

\* the dicts extract_outgoing_links returns
LinksFound(all_links, unique_links) ==
  [status |-> "success", total_links |-> TotalLinks(all_links, unique_links),
   links |-> unique_links, message |-> "extracted"]

LinksError(message) ==
  [status |-> "error", total_links |-> 0, links |-> <<>>, message |-> message]

InitLinks ==
  /\ lpc = "extract"
  /\ page_url \in PageHosts
  /\ page_content \in PageContents
  /\ excluded_domains \in ExcludedArgs
  /\ link_result = [status |-> "pending"]
  /\ CrawlIdle
  /\ BatchIdle
  /\ FetchIdle
  /\ SiteIdle
  /\ PositionIdle
  /\ WalkIdle

\* one call of extract_outgoing_links
ExtractCall ==
  /\ lpc = "extract"
  /\ lpc' = "returned"
  /\ link_result' =
       IF page_content.kind = "raises" THEN LinksError("exception")
       ELSE IF page_content.kind = "none" THEN LinksError("Failed to fetch page")
       ELSE LET all_links == AllLinks(page_content, page_url,
                                      ExcludedOrDefault(excluded_domains))
            IN LinksFound(all_links, UniqueLinks(all_links, {}))
  /\ UNCHANGED << page_url, page_content, excluded_domains,
                  crawlVars, batchVars, fetchVars, siteVars, posVars, walkVars >>

NextLinks == ExtractCall

SpecLinks == InitLinks /\ [][NextLinks]_vars

\* ------------------------------------------- claims about link extraction

\* extract_outgoing_links returned the success form
Extracted == lpc = "returned" /\ link_result.status = "success"

\* the URLs of the links extracted from these <a> elements
UrlsIn(hrefs) ==
  LET links == ExtractLinksFromElement(hrefs, page_url,
                                       ExcludedOrDefault(excluded_domains), "any")
  IN {links[i].url : i \in DOMAIN links}

\* the location of the first extraction that yields this URL
FirstLocation(url) ==
  IF url \in UrlsIn(page_content.article) THEN "article"
  ELSE IF url \in UrlsIn(page_content.h2) THEN "h2_heading"
  ELSE "aside"

\* C25: link deduplication. The returned links have pairwise distinct URLs,
\* every extracted URL is returned, and the record kept for a URL is the one of
\* the first extraction that yields it: article, then headings, then sidebars.
C25_FirstOccurrence ==
  Extracted =>
    LET links == link_result.links
    IN /\ \A i, j \in DOMAIN links : i # j => links[i].url # links[j].url
       /\ {links[i].url : i \in DOMAIN links}
            = UrlsIn(page_content.article \o page_content.h2 \o page_content.aside)
       /\ \A i \in DOMAIN links :
            /\ links[i].link_location = FirstLocation(links[i].url)
            /\ links[i].is_article_link <=> links[i].link_location = "article"

\* one URL stands in a sidebar and in the article: one link is returned, with
\* the article location
C25_Witness ==
  /\ Extracted
  /\ Len(page_content.article) = 1
  /\ page_content.aside = page_content.article
  /\ Len(link_result.links) = 1
  /\ link_result.links[1].link_location = "article"

\* C26: internal links are never returned. No returned link names the host of
\* the page (host names compare without regard to case); every returned URL is
\* absolute with a non-empty host.
C26_ExternalOnly ==
  Extracted =>
    \A i \in DOMAIN link_result.links :
      /\ link_result.links[i].url.netloc # <<>>
      /\ LowerHost(link_result.links[i].url.netloc) # LowerHost(page_url)

\* the substring rule: after lower-casing and www-stripping, an excluded entry
\* is a substring of the link host, or the link host is a substring of the entry
ExcludedByRule(netloc, excluded) ==
  LET host == StripWww(LowerHost(netloc))
  IN \E i \in DOMAIN excluded :
       LET entry == StripWww(LowerHost(excluded[i]))
       IN Contains(entry, host) \/ Contains(host, entry)

\* C27: exclusion symmetry. _should_exclude_link excludes a link exactly when
\* the substring rule holds in one of its two directions, so an external link
\* that is not skipped is returned exactly when the rule does not hold; in
\* particular excluding other.org excludes sub.other.org, and excluding
\* sub.other.org excludes other.org.
C27_ExclusionSymmetry ==
  /\ ShouldExcludeLink(SubOtherOrg, << OtherOrg >>)
  /\ ShouldExcludeLink(OtherOrg, << SubOtherOrg >>)
  /\ lpc = "returned" =>
     LET excluded == IF excluded_domains.given THEN excluded_domains.pats
                     ELSE DEFAULT_EXCLUDED_DOMAINS
         hrefs == page_content.article \o page_content.h2 \o page_content.aside
     IN \A k \in DOMAIN hrefs :
          LET href == hrefs[k]
              url == UrlJoin(page_url, href)
          IN /\ ShouldExcludeLink(url.netloc, excluded) <=> ExcludedByRule(url.netloc, excluded)
             /\ (Extracted /\ ~SkippedHref(href) /\ IsExternalLink(url, page_url)) =>
                  ((\E i \in DOMAIN link_result.links : link_result.links[i].url = url)
                     <=> ~ExcludedByRule(url.netloc, excluded))

\* sub.other.org is excluded, the page links to other.org, and nothing is returned
C27_Witness ==
  /\ Extracted
  /\ page_url = ExampleCom
  /\ excluded_domains = Given(<< SubOtherOrg >>)
  /\ Len(page_content.article) = 1
  /\ page_content.article[1].netloc = OtherOrg
  /\ link_result.links = <<>>

\* C29: what extract_outgoing_links returns is well formed: the success form
\* with total_links = len(links), or the error form with total_links = 0, no
\* links and a message; a fetch that failed gives the error form, and so does
\* an exception, which never leaves the call.
C29_WellFormed ==
  lpc = "returned" =>
    \/ /\ link_result.status = "success"
       /\ link_result.total_links = Len(link_result.links)
       /\ page_content.kind = "html"
    \/ /\ link_result.status = "error"
       /\ link_result.total_links = 0
       /\ link_result.links = <<>>
       /\ link_result.message # ""
       /\ page_content.kind \in {"none", "raises"}

\* the call returned the error form after an exception, and the success form
\* is reachable with a duplicate dropped
C29_Witness ==
  /\ lpc = "returned"
  /\ \/ page_content.kind = "raises" /\ link_result.status = "error"
     \/ /\ link_result.status = "success"
        /\ link_result.total_links = 1
        /\ Len(page_content.article) = 2
        /\ page_content.article[1] = page_content.article[2]

\* C35: the record invariant of a returned link: is_article_link holds exactly
\* when link_location is 'article'; position_paragraph and position_word are
\* present, and not negative, exactly for article links and absent for heading
\* and sidebar links; anchor_text has at most 500 characters.
C35_LinkRecord ==
  Extracted =>
    \A i \in DOMAIN link_result.links :
      LET link == link_result.links[i]
          positions == {"position_paragraph", "position_word"}
      IN /\ link.is_article_link <=> link.link_location = "article"
         /\ link.is_article_link =>
              /\ positions \subseteq DOMAIN link
              /\ link.position_paragraph >= 0
              /\ link.position_word >= 0
         /\ ~link.is_article_link => positions \cap DOMAIN link = {}
         /\ link.anchor_text <= 500

\* an article link whose <a> text is longer than 500 characters, returned with
\* 500 of them and with its position, next to a heading link without one
C35_Witness ==
  /\ Extracted
  /\ Len(link_result.links) = 2
  /\ page_content.article # <<>>
  /\ AnchorText(page_content.article[1]).chars > 500
  /\ link_result.links[1].is_article_link
  /\ link_result.links[1].anchor_text = 500
  /\ link_result.links[1].position_paragraph = 1
  /\ link_result.links[2].link_location = "h2_heading"
  /\ "position_word" \notin DOMAIN link_result.links[2]

\* ------------------------------------------------- the batch as a whole

\* batch_extract_with_fallback under the scheduling of the event loop: a task
\* that can take a step (acquire a free slot, finish its fetch, leave the
\* semaphore) eventually takes one, and a pass whose tasks are all done returns
SpecBatchFair == InitBatch /\ [][NextBatch]_vars /\ WF_vars(NextBatch)

\* the call is over: it returned the merged results or raised
BatchOver == bpc \in {"done", "raised"}

\* C32: for every concurrency limit >= 1 and every batch the call eventually
\* ends, every fetch terminating: no task of either pass waits for a limiter
\* slot for ever.
C32_EventuallyReturns == (concurrent >= 1) ~> BatchOver

\* C38: across one whole call the progress callback always receives a
\* totalCount equal to the size of the original batch and a completedCount that
\* never decreases and never exceeds totalCount.
C38_ProgressAcrossPasses ==
  progress_callback =>
    \A k \in DOMAIN progress :
      /\ progress[k].total = Len(post_urls)
      /\ progress[k].completed <= progress[k].total
      /\ k > 1 => progress[k].completed >= progress[k - 1].completed

\* C39: escalation never degrades a result: every URL whose lightweight result
\* had status success has an entry with status success in the returned results.
C39_NeverDegrades ==
  bpc = "done" =>
    \A u \in DictKeys(light_results) :
      DictGet(light_results, u).status = "success" =>
        DictGet(results, u).status = "success"

\* ------------------------------------------------ rendering pages

\* C36: every page fetch_with_playwright opens is closed before the attempt that
\* opened it ends, on success and on every failure path: between attempts and
\* after the call no page is open.
C36_PagesClosed ==
  client = "link_playwright" => open_pages = 0

\* ------------------------------------------------ limiter slots

\* the tasks of the running pass that ended with the error result
FailedTasks ==
  {i \in DOMAIN tasks : tasks[i].at = "done" /\ DictGet(pass_results, tasks[i].url) = ErrorResult}

\* C40: every slot a task of extract_from_multiple_pages acquired is released
\* when the task ends, also when its extraction failed or its progress callback
\* raised: the slots not free are those of the tasks still inside their body,
\* and once every task has ended, and after the pass has returned, all the
\* slots of the pass are free.
C40_SlotsReleased ==
  /\ bpc \in {"first", "second"} =>
       /\ semaphore = limit - Cardinality({i \in DOMAIN tasks : tasks[i].at \in {"running", "stored"}})
       /\ AllTasksDone => semaphore = limit
  /\ bpc \in {"launch", "done", "raised"} => semaphore = limit

\* a pass of three tasks with limit 2 in which every task has ended, one of
\* them with a failed extraction, and both slots are free again
C40_Witness ==
  /\ bpc = "first"
  /\ limit = 2
  /\ Len(tasks) = 3
  /\ AllTasksDone
  /\ FailedTasks # {}
  /\ semaphore = 2

\* ------------------------------------------------ traversal order

\* the sitemaps a fetched document names, as the traversal sees them
NestedIn(u) ==
  LET result == ParseContent(web[u])
  IN IF result.error THEN <<>> ELSE result.nested_sitemaps

\* the depth-first order over the fetched documents: the first URL of `todo`
\* not seen before, then its subtree, then the rest of `todo`
RECURSIVE DepthFirst(_, _)
DepthFirst(todo, seen) ==
  IF todo = <<>> THEN <<>>
  ELSE IF Head(todo) \in seen THEN DepthFirst(Tail(todo), seen)
  ELSE << Head(todo) >> \o DepthFirst(NestedIn(Head(todo)) \o Tail(todo), seen \cup {Head(todo)})

\* C33: the traversal for one root is sequential and depth-first: only the
\* innermost activation of process_sitemap runs while every outer one waits in
\* its loop over nested sitemaps, so at most one fetch is in flight; the
\* sitemaps are fetched in depth-first order, nested sitemaps in declaration
\* order, a subtree wholly before the next sibling.
C33_DepthFirst ==
  /\ pc = "walk" =>
       \A k \in 1..(Len(stack) - 1) : stack[k].at = "nested"
  /\ pc = "done" => fetch_log = DepthFirst(<< sitemap_url >>, {})

\* the root names s2 and s3, s2 names s3: s3 is fetched inside the subtree of
\* s2, before the walk comes back to the root's second entry
C33_Witness ==
  /\ pc = "done"
  /\ sitemap_url = Url("https", <<"s1">>)
  /\ web[sitemap_url].kind = "sitemapindex"
  /\ web[sitemap_url].locs = << Url("https", <<"s2">>), Url("https", <<"s3">>) >>
  /\ web[Url("https", <<"s2">>)].kind = "sitemapindex"
  /\ web[Url("https", <<"s2">>)].locs = << Url("https", <<"s3">>) >>
  /\ fetch_log = << sitemap_url, Url("https", <<"s2">>), Url("https", <<"s3">>) >>

\* ------------------------------------------------ _calculate_link_position

\* most p/div/section descendants of an article element, and most text nodes
MaxBlocks == 3
MaxTexts == 2

\* the link element whose position is calculated, and another element
TheLink == Tag("a", << "link" >>)
OtherElement == Tag("em", << "other" >>)

\* the p/div/section descendants of the article element, in document order;
\* two of them may have the same name, attributes and contents
Blocks == { Tag("p", << "one" >>), Tag("p", << "two" >>) }

\* the text nodes of the article element
TextNodes ==
  { TextNode(parent, text) :
      parent \in { TheLink, OtherElement }, text \in { Text(4, 1), Text(9, 2) } }

\* where find_parent(['p', 'div', 'section']) finds the nearest such ancestor
\* of the link: the k-th descendant block of the article element, the article
\* element itself (a <div class="post-content">), an element around the
\* article element (a <div> around <article>), or nowhere
Ancestors(blocks) ==
  { [kind |-> "inside", index |-> k] : k \in DOMAIN blocks }
    \cup { [kind |-> kind, index |-> 0] : kind \in {"region", "outside", "none"} }

\* line 132, `link_element.find_parent(['p', 'div', 'section'])`
FindParent(blocks, ancestor) ==
  IF ancestor.kind = "inside" THEN blocks[ancestor.index]
  ELSE IF ancestor.kind = "region" THEN Tag("div", << "post-content" >>)
  ELSE IF ancestor.kind = "outside" THEN Tag("div", << "page" >>)
  ELSE NoTag

InitPosition ==
  /\ qpc = "calculate"
  /\ region_blocks \in SeqUpTo(Blocks, MaxBlocks)
  /\ link_ancestor \in Ancestors(region_blocks)
  /\ region_texts \in SeqUpTo(TextNodes, MaxTexts)
  /\ link_position = [paragraph |-> 0, word |-> 0]
  /\ CrawlIdle
  /\ BatchIdle
  /\ FetchIdle
  /\ SiteIdle
  /\ LinkIdle
  /\ WalkIdle

\* one call of _calculate_link_position(link_element, article_content)
CalculateCall ==
  /\ qpc = "calculate"
  /\ qpc' = "returned"
  /\ link_position' =
       CalculateLinkPosition(region_blocks, FindParent(region_blocks, link_ancestor),
                             region_texts, TheLink)
  /\ UNCHANGED << region_blocks, link_ancestor, region_texts,
                  crawlVars, batchVars, fetchVars, siteVars, linkVars, walkVars >>

NextPosition == CalculateCall

SpecPosition == InitPosition /\ [][NextPosition]_vars

\* C34: whenever an article link has a p/div/section ancestor, its
\* position_paragraph is the 1-based document-order index of its nearest such
\* ancestor among the block elements of the region, so at least 1; it is 0 only
\* for a link with no block-level ancestor at all.
C34_ParagraphIndex ==
  qpc = "returned" =>
    /\ link_ancestor.kind = "inside" => link_position.paragraph = link_ancestor.index
    /\ link_ancestor.kind # "none" => link_position.paragraph >= 1
    /\ link_ancestor.kind = "none" => link_position.paragraph = 0

\* ------------------------------- discover_multiple_sites, traversal by traversal

\* the sites of a call, and the sitemap discovery finds for a site
CrawlSites == << "site1", "site2" >>
RootOf(site) == Url("https", << site, "sitemap.xml" >>)

\* how discover_sitemap ends for a site: no sitemap, an exception (the entry is
\* no string: urlparse raises), or the site's sitemap
Discoveries == {"none", "raises", "found"}

\* what the servers answer: every site has its own root document; the
\* sitemaps s2 and s3 the index documents name are the same URLs for both sites
CrawlWebs ==
  { [u \in SitemapUrls \cup {RootOf(CrawlSites[1]), RootOf(CrawlSites[2])} |->
       IF u = RootOf(CrawlSites[1]) THEN first
       ELSE IF u = RootOf(CrawlSites[2]) THEN second
       ELSE NestedDocument(u)] :
      first \in RootDocuments, second \in RootDocuments }

\* a task of discover_with_limit: the activation of crawl_site_sitemap for one
\* site with the locals of its get_all_sitemap_urls
Walk(site) ==
  [site |-> site, at |-> "waiting", stack |-> <<>>, visited_sitemaps |-> {},
   all_urls |-> <<>>, fetch_log |-> <<>>, outcome |-> NoOutcome]

InitCrawls ==
  /\ bpc = "crawls"
  /\ post_urls = CrawlSites
  /\ concurrent \in {1, 2}
  /\ limit = concurrent
  /\ semaphore = concurrent
  /\ tasks = <<>>
  /\ pass_results = <<>>
  /\ completed = 0
  /\ results = <<>>
  /\ failed_urls = <<>>
  /\ playwright_results = <<>>
  /\ light_results = <<>>
  /\ fetches = <<>>
  /\ browser_launches = 0
  /\ progress_callback = FALSE
  /\ progress = <<>>
  /\ open_resources = {}
  /\ acquired = <<>>
  /\ release_failed = {}
  /\ site_worlds \in [discovery : [DOMAIN CrawlSites -> Discoveries], web : CrawlWebs]
  /\ walks = [i \in DOMAIN CrawlSites |-> Walk(CrawlSites[i])]
  /\ CrawlIdle
  /\ FetchIdle
  /\ SiteIdle
  /\ LinkIdle
  /\ PositionIdle

\* the innermost activation of process_sitemap of a traversal, and the stack
\* without it or with it replaced
TopOf(w) == w.stack[Len(w.stack)]
PopOf(w) == SubSeq(w.stack, 1, Len(w.stack) - 1)
ReplaceTopOf(w, frame) == [w.stack EXCEPT ![Len(w.stack)] = frame]

\* line 293, `visited_sitemaps = set()`: the set is a local of each
\* get_all_sitemap_urls call
VisitedByAny(i) == UNION {walks[j].visited_sitemaps : j \in DOMAIN walks}
VisitedBy(i) == walks[i].visited_sitemaps

\* what a step of one task leaves alone
OtherTasksUnchanged ==
  UNCHANGED << bpc, post_urls, concurrent, limit, tasks, pass_results, completed,
               failed_urls, playwright_results, light_results, fetches,
               browser_launches, progress_callback, progress, open_resources,
               acquired, release_failed, site_worlds,
               crawlVars, fetchVars, siteVars, linkVars, posVars >>

\* line 543, `async with semaphore`: a waiting task takes a free slot
CrawlAcquire(i) ==
  /\ bpc = "crawls"
  /\ walks[i].at = "waiting"
  /\ ~Locked(semaphore)
  /\ semaphore' = semaphore - 1
  /\ walks' = [walks EXCEPT ![i].at = "discover"]
  /\ UNCHANGED results
  /\ OtherTasksUnchanged

\* crawl_site_sitemap, lines 440-460 and 470-478: discovery ends; without a
\* sitemap or with an exception the dict to return is known, with a sitemap
\* get_all_sitemap_urls starts at it
CrawlDiscover(i) ==
  /\ bpc = "crawls"
  /\ walks[i].at = "discover"
  /\ LET found == site_worlds.discovery[i]
     IN walks' = [walks EXCEPT ![i] =
          IF found = "none" THEN [@ EXCEPT !.at = "return", !.outcome = NoSitemap]
          ELSE IF found = "raises" THEN [@ EXCEPT !.at = "return", !.outcome = ErrorOutcome]
          ELSE [@ EXCEPT !.at = "walk",
                         !.stack = << Frame(RootOf(walks[i].site), "enter", <<>>, <<>>) >>]]
  /\ UNCHANGED << semaphore, results >>
  /\ OtherTasksUnchanged

\* a task is inside process_sitemap, at this step of its innermost activation
Walking(i, at) ==
  /\ bpc = "crawls"
  /\ walks[i].at = "walk"
  /\ walks[i].stack # <<>>
  /\ TopOf(walks[i]).at = at

\* process_sitemap, lines 296-301, in the traversal of task i
CrawlEnter(i) ==
  /\ Walking(i, "enter")
  /\ LET w == walks[i]
     IN walks' = [walks EXCEPT ![i] =
          IF TopOf(w).url \in VisitedBy(i)
            THEN [w EXCEPT !.stack = PopOf(w)]
            ELSE [w EXCEPT !.visited_sitemaps = @ \cup {TopOf(w).url},
                           !.stack = ReplaceTopOf(w, [TopOf(w) EXCEPT !.at = "parse"])]]
  /\ UNCHANGED << semaphore, results >>
  /\ OtherTasksUnchanged

\* process_sitemap, lines 304-310, in the traversal of task i
CrawlParse(i) ==
  /\ Walking(i, "parse")
  /\ LET w == walks[i]
         result == ParseContent(site_worlds.web[TopOf(w).url])
     IN walks' = [walks EXCEPT ![i] =
          [w EXCEPT !.fetch_log = Append(@, TopOf(w).url),
                    !.stack = IF result.error THEN PopOf(w)
                              ELSE ReplaceTopOf(w, Frame(TopOf(w).url, "nested",
                                                         result.nested_sitemaps,
                                                         result.urls))]]
  /\ UNCHANGED << semaphore, results >>
  /\ OtherTasksUnchanged

\* process_sitemap, lines 313-327, in the traversal of task i: the next nested
\* sitemap, or all_urls.extend and the return
CrawlNested(i) ==
  /\ Walking(i, "nested")
  /\ LET w == walks[i]
         top == TopOf(w)
     IN walks' = [walks EXCEPT ![i] =
          IF top.nested # <<>>
            THEN [w EXCEPT !.stack =
                   Append(ReplaceTopOf(w, [top EXCEPT !.nested = Tail(top.nested)]),
                          Frame(NextNested(top.nested), "enter", <<>>, <<>>))]
            ELSE [w EXCEPT !.all_urls = @ \o top.urls, !.stack = PopOf(w)]]
  /\ UNCHANGED << semaphore, results >>
  /\ OtherTasksUnchanged

\* get_all_sitemap_urls, lines 331-343, and crawl_site_sitemap, lines 462-468:
\* the walk of task i is over, its URLs are filtered with the default patterns
\* and the success dict is built
CrawlFilter(i) ==
  /\ bpc = "crawls"
  /\ walks[i].at = "walk"
  /\ walks[i].stack = <<>>
  /\ LET w == walks[i]
         filtered == FilterPostUrls(w.all_urls, POST_URL_PATTERNS, EXCLUDE_URL_PATTERNS)
     IN \E unique \in (IF w.all_urls # <<>> THEN UniqueLists(filtered) ELSE { <<>> }) :
          walks' = [walks EXCEPT ![i] =
            [w EXCEPT !.at = "return", !.outcome = Success(RootOf(w.site), unique)]]
  /\ UNCHANGED << semaphore, results >>
  /\ OtherTasksUnchanged

\* lines 544-545: crawl_site_sitemap returned, the dict is stored under the
\* site and the task leaves the semaphore
CrawlStore(i) ==
  /\ bpc = "crawls"
  /\ walks[i].at = "return"
  /\ results' = DictSet(results, walks[i].site, walks[i].outcome)
  /\ semaphore' = Released(semaphore)
  /\ walks' = [walks EXCEPT ![i].at = "done"]
  /\ OtherTasksUnchanged

\* lines 547-550: gather has every task and the results are returned
CrawlsReturn ==
  /\ bpc = "crawls"
  /\ \A i \in DOMAIN walks : walks[i].at = "done"
  /\ bpc' = "crawls_done"
  /\ UNCHANGED << post_urls, concurrent, limit, semaphore, tasks, pass_results,
                  completed, results, failed_urls, playwright_results, light_results,
                  fetches, browser_launches, progress_callback, progress,
                  open_resources, acquired, release_failed,
                  crawlVars, fetchVars, siteVars, linkVars, posVars, walkVars >>

NextCrawls ==
  \/ \E i \in DOMAIN walks : CrawlAcquire(i)
  \/ \E i \in DOMAIN walks : CrawlDiscover(i)
  \/ \E i \in DOMAIN walks : CrawlEnter(i)
  \/ \E i \in DOMAIN walks : CrawlParse(i)
  \/ \E i \in DOMAIN walks : CrawlNested(i)
  \/ \E i \in DOMAIN walks : CrawlFilter(i)
  \/ \E i \in DOMAIN walks : CrawlStore(i)
  \/ CrawlsReturn

SpecCrawls == InitCrawls /\ [][NextCrawls]_vars

\* one crawl_site_sitemap call, or one discover_multiple_sites call
InitSiteTasks == InitSite \/ InitCrawls
NextSiteTasks == NextSite \/ NextCrawls
SpecSiteTasks == InitSiteTasks /\ [][NextSiteTasks]_vars

\* ------------------------------------- claims about concurrent site crawls

\* a dict crawl_site_sitemap may return: one of the three statuses, total_urls
\* the length of urls, and for an error no sitemap URL and no URLs
WellFormedOutcome(outcome) ==
  /\ outcome.status \in {"success", "no_sitemap", "error"}
  /\ outcome.total_urls = Len(outcome.urls)
  /\ outcome.status = "error" => outcome.urls = <<>> /\ outcome.sitemap_url = NoUrl

\* the tasks of discover_multiple_sites that have stored their dict
DoneWalks == {i \in DOMAIN walks : walks[i].at = "done"}

\* C31: no error escapes a sitemap task. Whatever crawl_site_sitemap returns
\* has a status among success, no_sitemap and error and total_urls = len(urls);
\* an exception in its body gives status error with an empty URL list; in
\* discover_multiple_sites every task that ended has its dict in the results
\* under its site, a task that failed changes no dict another task stored, and
\* the call returns with a dict for every site.
C31_NoErrorEscapes ==
  /\ spc = "returned" => WellFormedOutcome(crawl_outcome)
  /\ (spc = "returned" /\ pc = "raised") => crawl_outcome.status = "error"
  /\ bpc \in {"crawls", "crawls_done"} =>
       /\ \A i \in DoneWalks :
            /\ walks[i].site \in DictKeys(results)
            /\ DictGet(results, walks[i].site) = walks[i].outcome
            /\ WellFormedOutcome(walks[i].outcome)
            /\ site_worlds.discovery[i] = "raises" => walks[i].outcome.status = "error"
       /\ bpc = "crawls_done" => DictKeys(results) = ToSet(post_urls)

\* the crawl of the first site raised and the crawl of the second site found
\* URLs: both dicts are in what discover_multiple_sites returns
C31_Witness ==
  /\ bpc = "crawls_done"
  /\ DictGet(results, CrawlSites[1]).status = "error"
  /\ DictGet(results, CrawlSites[2]).status = "success"
  /\ DictGet(results, CrawlSites[2]).total_urls > 0

\* the traversal of one root with nobody else fetching: the sitemaps in
\* depth-first order over what the servers answer
RECURSIVE SoloOrder(_, _, _)
SoloOrder(answers, todo, seen) ==
  IF todo = <<>> THEN <<>>
  ELSE IF Head(todo) \in seen THEN SoloOrder(answers, Tail(todo), seen)
  ELSE LET result == ParseContent(answers[Head(todo)])
           below == IF result.error THEN <<>> ELSE result.nested_sitemaps
       IN << Head(todo) >> \o SoloOrder(answers, below \o Tail(todo), seen \cup {Head(todo)})

\* the page URLs of the documents fetched in that order
RECURSIVE SoloUrls(_, _)
SoloUrls(answers, order) ==
  IF order = <<>> THEN <<>>
  ELSE LET result == ParseContent(answers[Head(order)])
       IN (IF result.error THEN <<>> ELSE result.urls) \o SoloUrls(answers, Tail(order))

\* what the dict of a site is when the site is crawled alone, up to the order
\* list(set(...)) gives the URLs
SoloOutcome(site, found, answers, outcome) ==
  IF found = "none" THEN outcome = NoSitemap
  ELSE IF found = "raises" THEN outcome = ErrorOutcome
  ELSE LET order == SoloOrder(answers, << RootOf(site) >>, {})
           urls == SoloUrls(answers, order)
           kept == FilterPostUrls(urls, POST_URL_PATTERNS, EXCLUDE_URL_PATTERNS)
       IN /\ outcome.status = "success"
          /\ outcome.sitemap_url = RootOf(site)
          /\ ToSet(outcome.urls) = ToSet(kept)
          /\ outcome.total_urls = Cardinality(ToSet(kept))

\* C37: non-interference between the concurrent site crawls. The dict of a
\* site is the one the site gets when it is crawled alone, whatever the other
\* tasks did and however the tasks interleaved; every traversal fetches its own
\* sitemaps in its own depth-first order, so a sitemap two sites name is
\* fetched and expanded by both.
C37_NonInterference ==
  bpc \in {"crawls", "crawls_done"} =>
    \A i \in DOMAIN walks :
      LET w == walks[i]
          solo == SoloOrder(site_worlds.web, << RootOf(w.site) >>, {})
      IN /\ w.at \in {"return", "done"} =>
              /\ SoloOutcome(w.site, site_worlds.discovery[i], site_worlds.web, w.outcome)
              /\ site_worlds.discovery[i] = "found" => w.fetch_log = solo
         /\ w.at = "done" => DictGet(results, w.site) = w.outcome
         /\ w.at = "walk" =>
              /\ w.fetch_log = SubSeq(solo, 1, Len(w.fetch_log))
              /\ ToSet(w.fetch_log) \subseteq w.visited_sitemaps
              /\ w.visited_sitemaps \subseteq ToSet(solo)

\* both sites name the sitemap s2 and the two crawls run at the same time:
\* each of them has fetched s2 and holds it in its own visited set
C37_Witness ==
  /\ bpc = "crawls"
  /\ concurrent = 2
  /\ \A i \in DOMAIN walks :
       /\ walks[i].at = "walk"
       /\ \E k \in DOMAIN walks[i].fetch_log : walks[i].fetch_log[k] = Url("https", <<"s2">>)
       /\ Url("https", <<"s2">>) \in walks[i].visited_sitemaps

====
